---- MODULE Spec2Model ----
(***************************************************************************)
(* Blast-wave fit macros (mpdChargedHadrons): the bookkeeping around the   *)
(* external fitter.  Modelled here: the global chi-square functors, the    *)
(* GlobalFitCentr drivers and the parameter lookups that follow them.      *)
(*                                                                         *)
(* Numbers are integers.  Masses are in units of 1e-8 GeV; fitted values   *)
(* are opaque integers chosen so that different parameter slots of one fit *)
(* result never hold the same value.                                       *)
(***************************************************************************)
EXTENDS Integers, Sequences, FiniteSets, TLC

VARIABLES
    prog,          \* which macro is loaded: "Global", "Global_all", "AllParts"
    systN,         \* collision system index (global systN)
    chiCharge,     \* charge argument of the GlobalFitCentr that built the functor
    chiPar,        \* parameter vector the fitter handed to GlobalChi2::operator()
    chiBlocks,     \* p[i][0..3]: the block handed to term i in that evaluation
    chiValue,      \* value returned by that evaluation
    grN,           \* number of in-range points of grSpectra[part][.]
    fitTerms,      \* chi-square terms built by the last GlobalFitCentr
    fitNData,      \* data-point count passed to FitFCN by the last GlobalFitCentr
    fitCharge,     \* charge argument of the last GlobalFitCentr, -1 before any
    paramsGlobal,  \* paramsGlobal / paramsGlobalAllParts as flat memory
    fitResults,    \* per cell: the fit result vector last stored for it
    oobWrite,      \* a store went past the end of the whole array
    ioVersion,     \* which WriteReadFiles.h is included: "root" or "headers"
    outParams,     \* outParams[part][centr][0..3] handed to WriteParams
    outParamsErr,  \* outParamsErr[part][centr][0..3] handed to WriteParams
    paramFile,     \* the individual-fit parameter file: a sequence of records
    rdPar,         \* par filled by ReadParams(par, parErr)
    rdParErr,      \* parErr filled by ReadParams(par, parErr)
    rdCell,        \* argument and result of the last ReadParams(part, centr, par)
    rdParam,       \* argument and result of the last ReadParam(parN, par, parErr)
    isParamsFileExist, \* the flag the global-fit macro hands to WriteGlobalParams
    gFile,         \* the global-fit parameter file: does it exist, and its lines
    gWritten,      \* charges of the blocks written since the file was truncated
    rdReader,      \* the ReadGlobalParams that is running or has run
    rdGlobal,      \* the paramsGlobal array ReadGlobalParams fills
    rdPos,         \* records the stream of ReadGlobalParams has consumed
    rdPc,          \* ReadGlobalParams: "idle", "reading" or "done"
    bwVersion,     \* the BlastWaveFit.h in use, or "BlastWave" for the macro's own loop
    initParamsType, \* argument of BlastWaveFit::Fit
    isContour,     \* BlastWaveFit::isContour, or the local flag of BlastWave
    fitCur,        \* number of (part, centr) cells the fit loop has been through
    fitLog,        \* what the loop did with each of those cells
    bwPc,          \* "fit" while the loop runs, "fitted" after it, "drawn" at the end
    conPat,        \* which fits and contours of this run fail
    contour,       \* the (part, centr, s) whose contour[part][centr][s] is not null
    styled,        \* the (part, centr, s) whose contour had its line style set
    diag,          \* the (part, centr, s) of the diagnostic lines printed
    nDiag,         \* number of diagnostic lines printed
    drawn,         \* the (part, centr, s) on which Draw was called
    legend,        \* entries added to legendContour
    spVersion,     \* the def.h whose SetSpectra runs: "root" or "input"
    spType,        \* the type argument of SetSpectra: "mt" or "pt"
    spMissing,     \* the (species, centrality) whose histogram is not in the file
    spCur,         \* number of cells the loops of SetSpectra have been through
    grSpectra,     \* the (species, centrality) whose grSpectra has been set
    spDeref,       \* a null histogram pointer has been dereferenced
    spPc,          \* SetSpectra: "load" while it runs, then "done" or "crashed"
    rdFail,        \* the stream of ReadGlobalParams has failbit set without eofbit
    rdBadStore,    \* a failed extraction has stored into paramsGlobal
    drRun,         \* the run: macro or header version, system, Fit case, file values
    drCur,         \* number of GlobalFitCentr calls, or of Fit cells, gone through
    drPc,          \* position in the driver: "setup", "fit", "store", "cell", "done"
    fitter,        \* initial values, limit calls, fixed parameters, minimizer
    drPasses,      \* the minimizations of the current call, as invoked
    drStored,      \* the pass whose result the current call stored, 0 if none
    rLimitMult,    \* BlastWaveFit::rLimitMult
    ldRun,         \* the loader run: WriteReadFiles.h version, system, points per graph, data
    ldCur,         \* number of loader calls made
    ldPc,          \* "run" while calls remain, then "done"
    grLoaded,      \* grSpectra as the text-file loaders fill it: cell -> points
    plSyst,        \* systN of the macros of the pipeline
    plPc,          \* the next file operation of the pipeline
    plCell,        \* cells of Fit(0) gone through in BlastWaveFinal_all
    plWritten,     \* paths opened for writing so far
    plRead,        \* parameter-file paths opened for reading so far, with the stage
    avRun,         \* the drawing macro that runs and the values its parameter files hold
    avPc,          \* "setT", "avgT", "setUt", "avgUt" or "done"
    avCur,         \* systems SetGraphs has been called for in the current loop
    Tpar,          \* Tpar[charge][centr] of the drawing macros
    utPar,         \* utPar[charge][centr] of the drawing macros
    gr,            \* gr[charge][system]: null, or the y values of the graph
    gAvgT,         \* gAvgT as sum and count
    gAvgUt,        \* gAvgUt as sum and count
    seHist,        \* chargeFlag of every invocation of the global-fit macro in the session
    sePc,          \* position inside the running invocation
    dpRun,         \* the draw macro of the session: [macro, systN]
    dpPc,          \* position inside BWDrawParams / CentDrawParams
    dpCalls,       \* number of invocations entered in the session
    avgT,          \* the global avgT of the macro
    avgUt,         \* the global avgUt of CentDrawParams
    syRun,         \* the call of setParamsForSys: [ver, type, prof]
    syPc,          \* "call" before setParamsForSys, "done" after it
    parResults,    \* the array setParamsForSys is given
    bwFit,         \* the limit multipliers of the BlastWaveFit object
    rkRun,         \* the call of SetGraphs: [fitType, systN, seed]
    rkPc,          \* position inside ReadGlobalParams
    rkPos,         \* records ReadGlobalParams has consumed
    rkStores,      \* the index triples <<charge, centr, k>> ReadGlobalParams stored into
    tbRun,         \* the loop over the centralities that runs: [site, systN]
    tbCur,         \* passes of the loop made
    tbLookups,     \* the pairs <<table, index>> the loop has read
    lbRun,         \* the loader call: [fn, systN, open, count]
    lbPc,          \* position inside the loader
    lbCur,         \* passes of the outer loop made
    lbN,           \* the local N of the loader
    lbMaxIdx,      \* largest index of the point buffers written so far, -1 if none
    lbUsedN,       \* N was used as a loop bound or as a point count
    sbRun,         \* the histogram SetSpectra converts: [ver, part, nbins, seed]
    sbBin,         \* the loop variable bin
    sbBuf,         \* the elements of mT, sp, xerr, sp_err written so far, by index
    sbGraph,       \* the points of the TGraphErrors built, << >> before
    sbUninit,      \* the graph was built from an element that was never written
    sbPc           \* position inside the pass of SetSpectra

vars == <<prog, systN, chiCharge, chiPar, chiBlocks, chiValue,
          grN, fitTerms, fitNData, fitCharge, paramsGlobal, fitResults, oobWrite,
          ioVersion, outParams, outParamsErr, paramFile, rdPar, rdParErr,
          rdCell, rdParam,
          isParamsFileExist, gFile, gWritten, rdReader, rdGlobal, rdPos, rdPc,
          bwVersion, initParamsType, isContour, fitCur, fitLog, bwPc,
          conPat, contour, styled, diag, nDiag, drawn, legend,
          spVersion, spType, spMissing, spCur, grSpectra, spDeref, spPc,
          rdFail, rdBadStore,
          drRun, drCur, drPc, fitter, drPasses, drStored, rLimitMult,
          ldRun, ldCur, ldPc, grLoaded,
          plSyst, plPc, plCell, plWritten, plRead,
          avRun, avPc, avCur, Tpar, utPar, gr, gAvgT, gAvgUt,
          seHist, sePc,
          dpRun, dpPc, dpCalls, avgT, avgUt,
          syRun, syPc, parResults, bwFit,
          rkRun, rkPc, rkPos, rkStores,
          tbRun, tbCur, tbLookups,
          lbRun, lbPc, lbCur, lbN, lbMaxIdx, lbUsedN,
          sbRun, sbBin, sbBuf, sbGraph, sbUninit, sbPc>>

chiVars == <<chiCharge, chiPar, chiBlocks, chiValue>>
fitVars == <<grN, fitTerms, fitNData, fitCharge, paramsGlobal, fitResults, oobWrite>>
ioVars  == <<ioVersion, outParams, outParamsErr, paramFile, rdPar, rdParErr,
             rdCell, rdParam>>
gVars   == <<isParamsFileExist, gFile, gWritten, rdReader, rdGlobal, rdPos, rdPc>>
bwVars  == <<bwVersion, initParamsType, isContour, fitCur, fitLog, bwPc>>
conVars == <<conPat, contour, styled, diag, nDiag, drawn, legend>>
spVars  == <<spVersion, spType, spMissing, spCur, grSpectra, spDeref, spPc>>
rgVars  == <<rdFail, rdBadStore>>
drVars  == <<drRun, drCur, drPc, fitter, drPasses, drStored, rLimitMult>>
ldVars == <<ldRun, ldCur, ldPc, grLoaded>>
plVars == <<plSyst, plPc, plCell, plWritten, plRead>>
avVars == <<avRun, avPc, avCur, Tpar, utPar, gr, gAvgT, gAvgUt>>
seVars == <<seHist, sePc>>
dpVars == <<dpRun, dpPc, dpCalls, avgT, avgUt>>
syVars == <<syRun, syPc, parResults, bwFit>>
rkVars == <<rkRun, rkPc, rkPos, rkStores>>
tbVars == <<tbRun, tbCur, tbLookups>>
lbVars == <<lbRun, lbPc, lbCur, lbN, lbMaxIdx, lbUsedN>>
sbVars == <<sbRun, sbBin, sbBuf, sbGraph, sbUninit, sbPc>>
extVars == <<spVars, rgVars, drVars, ldVars, plVars, avVars, seVars, dpVars, syVars, rkVars, tbVars, lbVars, sbVars>>

----------------------------------------------------------------------------
(* Bounds of the model *)

MaxParVal == 1      \* chi-square parameter values are drawn from 0..MaxParVal
MaxPoints == 2      \* a spectrum has 1..MaxPoints points inside the fit range
MaxCentr  == 2      \* GlobalFitCentr is run for centralities below MaxCentr
MaxFit    == 1      \* the fitter returns one of MaxFit distinct result vectors
MaxSeed   == 1      \* fitted values carry a seventh digit in 0..MaxSeed
MaxBlocks == 2      \* WriteGlobalParams is called at most MaxBlocks times
MaxZero   == 2      \* the files hold one of MaxZero patterns of zero constants, or none
MaxPat    == 2      \* the fits and contours fail in one of MaxPat patterns, or never
MaxMiss   == 3      \* up to MaxMiss histograms are missing from the input file
MaxCut    == 2      \* a truncated file lacks 1..MaxCut of its last records
MaxBad    == 2      \* the bad token of a file is in one of MaxBad records
MaxProf   == 2      \* the parameter files hold one of MaxProf sets of values
MaxRuns   == 2      \* the global-fit macro is invoked at most MaxRuns times in a session
MaxCount  == 31     \* the point count at the head of a spectra file is at most MaxCount
MaxBins   == 3      \* a histogram has 1..MaxBins bins

----------------------------------------------------------------------------
(* Tables of def.h *)

PROGS == {"Global", "Global_all", "AllParts"}

N_PARAMS_CELL == 5                       \* last dimension of paramsGlobal

masses == [i \in 0..5 |->
             <<13957061, 13957061, 49366700, 49366700, 93827200, 93827200>>[i + 1]]

\* collision systems run by the model: AuAu (12 centralities) and pAl (4)
SYSTS == {0, 1}

N_CENTR_SYST == [s \in 0..4 |-> <<12, 4, 5, 5, 4>>[s + 1]]

CENTR_SYST == [s \in 0..4 |-> [j \in 0..(N_CENTR_SYST[s] - 1) |-> j]]

\* N_CENTR of the def.h each macro includes: 12 in input/def.h, 6 in def.h
N_CENTR_input == 12
N_CENTR_root  == 6

N_CENTR(pr) == IF pr = "AllParts" THEN N_CENTR_root ELSE N_CENTR_input

\* number of charge rows of the array the macro stores into
N_ROWS(pr) == IF pr = "AllParts" THEN 1 ELSE 2

\* centralities the macro's loop runs over
Centralities(pr, s) ==
    IF pr = "AllParts" THEN 0..(N_CENTR_root - 1)
    ELSE {CENTR_SYST[s][j] : j \in 0..(N_CENTR_SYST[s] - 1)}

----------------------------------------------------------------------------
(* Helpers *)

RECURSIVE SumTo(_, _)
SumTo(f, n) == IF n < 0 THEN 0 ELSE f[n] + SumTo(f, n - 1)

\* ROOT::Fit::Chi2Function(data, wf)(p): the library's chi-square of one data
\* set against one model function at parameter block p.  Abstract here: an
\* integer that depends on the data set, the function and every block entry.
Chi2Function(data, func, p) ==
    (data + 1) * 7 + (func + 1) * 11 + p[1] * 13 + p[2] * 17 + p[3] * 19 + (p[4] % 23)

----------------------------------------------------------------------------
(* GlobalChi2::operator() of the three macros *)

\* the slot index used for the mass instead of the species index
GlobalChi2_Global_p_slotMass(par) ==
    [i \in 0..2 |-> <<par[2 + i], par[0], par[1], masses[i]>>]

\* BlastWaveGlobal.C: 3 species, masses[2 * i]
GlobalChi2_Global_p(par) ==
    [i \in 0..2 |-> <<par[2 + i], par[0], par[1], masses[2 * i]>>]

\* BlastWaveGlobal_all.C: 6 species
GlobalChi2_all_p(par) ==
    [i \in 0..5 |-> <<par[2 + i], par[0], par[1], masses[i]>>]

\* BlastWaveGlobalAllParts.C: 6 species
GlobalChi2_AllParts_p(par) ==
    [i \in 0..5 |-> <<par[2 + i], par[0], par[1], masses[i]>>]

Nfunc(pr) == IF pr = "Global" THEN 3 ELSE 6
Npar(pr)  == IF pr = "Global" THEN 5 ELSE 8

GlobalChi2_p(pr, par) ==
    CASE pr = "Global"     -> GlobalChi2_Global_p(par)
      [] pr = "Global_all" -> GlobalChi2_all_p(par)
      [] pr = "AllParts"   -> GlobalChi2_AllParts_p(par)

----------------------------------------------------------------------------
(* The chi-square terms each GlobalFitCentr builds: Chi2Function(dataN, wfN), *)
(* in the order they are handed to the GlobalChi2 constructor.               *)

\* BlastWaveGlobal.C: chi2_0(data0, wf0), chi2_2(data2, wf2), chi2_4(data4, wf4)
\* with dataK = grSpectra[K + charge], wfK = ifuncxGlobal[K + charge]
Terms_Global(charge) ==
    [i \in 0..2 |-> [data |-> 2 * i + charge, func |-> 2 * i + charge]]

\* BlastWaveGlobal_all.C: chi2_k(datak, wfk), k = 0..5
Terms_all ==
    [i \in 0..5 |-> [data |-> i, func |-> i]]

\* BlastWaveGlobalAllParts.C: chi2_5 is declared as Chi2Function(data4, wf5)
Terms_AllParts ==
    [i \in 0..5 |-> [data |-> IF i = 5 THEN 4 ELSE i, func |-> i]]

Terms(pr, charge) ==
    CASE pr = "Global"     -> Terms_Global(charge)
      [] pr = "Global_all" -> Terms_all
      [] pr = "AllParts"   -> Terms_AllParts

\* the data sets whose Size() is summed into the FitFCN data-point count
CountedData(pr, charge) ==
    CASE pr = "Global"     -> [i \in 0..2 |-> 2 * i + charge]
      [] pr = "Global_all" -> [i \in 0..5 |-> i]
      [] pr = "AllParts"   -> [i \in 0..5 |-> i]

\* species whose spectrum slot i of the global fit stands for
SlotSpecies(pr, charge, i) == IF pr = "Global" THEN 2 * i + charge ELSE i

\* GlobalChi2::operator(): builds p and returns the sum of the terms
GlobalChi2(pr, charge, par) ==
    LET p == GlobalChi2_p(pr, par)
        t == Terms(pr, charge)
        v == [i \in 0..(Nfunc(pr) - 1) |-> Chi2Function(t[i].data, t[i].func, p[i])]
    IN  SumTo(v, Nfunc(pr) - 1)

----------------------------------------------------------------------------
(* paramsGlobal[2][N_CENTR][5] and paramsGlobalAllParts[N_CENTR][5] as the  *)
(* flat row-major memory the build lays them out in.  An index k >= 5 lands *)
(* in the following cell; an address past the array is outside the model.   *)

MemSize(pr) == N_ROWS(pr) * N_CENTR(pr) * N_PARAMS_CELL

Addr(pr, charge, centr, k) == (charge * N_CENTR(pr) + centr) * N_PARAMS_CELL + k

\* the vectors the external fitter can return: entry k of result b is 10*b + k
FitResultVec(n, b) == [k \in 0..(n - 1) |-> 10 * b + k]

\* for (i = 0; i < Npar; i++) paramsGlobal[charge][centr][i] = fitResults[i]
StoreResults(pr, mem, charge, centr, r, n) ==
    LET first == Addr(pr, charge, centr, 0)
    IN  [a \in DOMAIN mem |->
            IF a >= first /\ a < first + n THEN r[a - first] ELSE mem[a]]

\* number of values the store loop of each macro copies
NStore(pr) == IF pr = "Global" THEN 5 ELSE 8

\* the constant looked up by species index instead of by slot
getGlobalParams_bySpecies(mem, part, centr) ==
    LET charge == part % 2
    IN  << mem[Addr("Global", charge, centr, 2 + part)],
           mem[Addr("Global", charge, centr, 0)],
           mem[Addr("Global", charge, centr, 1)],
           masses[part] >>

\* input/def.h getGlobalParams (3-species macro)
getGlobalParams(mem, part, centr) ==
    LET charge == part % 2
    IN  << mem[Addr("Global", charge, centr, 2 + part \div 2)],
           mem[Addr("Global", charge, centr, 0)],
           mem[Addr("Global", charge, centr, 1)],
           masses[part] >>

\* input/headers/WriteReadFiles.h getGlobalParams (used by BlastWaveGlobal_all)
getGlobalParams_headers(mem, part, centr) ==
    LET charge == part % 2
    IN  << mem[Addr("Global_all", charge, centr, 2 + part \div 2)],
           mem[Addr("Global_all", charge, centr, 0)],
           mem[Addr("Global_all", charge, centr, 1)],
           masses[part] >>

\* def.h getGlobalParamsAllParts
getGlobalParamsAllParts(mem, part, centr) ==
    << mem[Addr("AllParts", 0, centr, 2 + part \div 2)],
       mem[Addr("AllParts", 0, centr, 0)],
       mem[Addr("AllParts", 0, centr, 1)],
       masses[part] >>

----------------------------------------------------------------------------
(* Text files.  A file is the sequence of its records; a record is the      *)
(* tuple of the tokens of one line.  operator<< prints a double with six    *)
(* significant digits, operator>> parses the printed token back.  Doubles  *)
(* are modelled as integers below 10^7, so only the seventh digit is lost. *)

\* operator<<(double): the number the printed token denotes
Format(v) == IF v < 1000000 THEN v ELSE ((v + 5) \div 10) * 10

\* operator>>(double): the value of the token
Parse(t) == t

N_PARTS == 6
PARTS_ == 0..(N_PARTS - 1)
IO_VERSIONS == {"root", "headers"}

\* the three BlastWaveFit.h, each with the WriteReadFiles.h next to it
FIT_VERSIONS == {"root", "input", "headers"}

\* N_CENTR of the def.h that goes with each WriteReadFiles.h
IoN_CENTR(ver) == IF ver = "root" THEN N_CENTR_root ELSE N_CENTR_input

\* the centralities the loops of each version visit, in order:
\* for (int centr : CENTR)  /  for (j < N_CENTR_SYST[systN]) centr = CENTR_SYST[systN][j]
CentrList(ver, s) ==
    CASE ver = "root"    -> [j \in 0..(N_CENTR_root - 1) |-> j]
      [] ver = "input"   -> [j \in 0..(N_CENTR_input - 1) |-> j]
      [] ver = "headers" -> CENTR_SYST[s]

NLoop(ver, s) ==
    CASE ver = "root"    -> N_CENTR_root
      [] ver = "input"   -> N_CENTR_input
      [] ver = "headers" -> N_CENTR_SYST[s]

\* a double par[N_PARTS][N_CENTR][4] filled with zeros
ZeroPar(ver) == [part \in PARTS_ |-> [centr \in 0..(IoN_CENTR(ver) - 1) |-> [k \in 0..3 |-> 0]]]

\* a double par[N_PARTS][N_CENTR] filled with zeros
ZeroPar2(ver) == [part \in PARTS_ |-> [centr \in 0..(IoN_CENTR(ver) - 1) |-> 0]]

\* the columns of one line, written with the columns of T error and beta swapped
WriteParams_line_swapped(par, parErr, part, centr) ==
    << part, centr, Format(par[part][centr][0]),
       Format(par[part][centr][1]), Format(par[part][centr][2]),
       Format(parErr[part][centr][1]), Format(parErr[part][centr][2]) >>

\* txtFile << part << centr << par[0] << par[1] << parErr[1] << par[2] << parErr[2] << endl
WriteParams_line(par, parErr, part, centr) ==
    << part, centr, Format(par[part][centr][0]),
       Format(par[part][centr][1]), Format(parErr[part][centr][1]),
       Format(par[part][centr][2]), Format(parErr[part][centr][2]) >>

\* WriteParams written with the centrality loop outside the particle loop
WriteParams_centrFirst(ver, s, par, parErr) ==
    LET n == NLoop(ver, s)
    IN  [i \in 1..(N_PARTS * n) |->
            WriteParams_line(par, parErr, (i - 1) % N_PARTS,
                             CentrList(ver, s)[(i - 1) \div N_PARTS])]

\* WriteParams: one line per (part, centr), particles outside, centralities inside
WriteParams(ver, s, par, parErr) ==
    LET n == NLoop(ver, s)
    IN  [i \in 1..(N_PARTS * n) |->
            WriteParams_line(par, parErr, (i - 1) \div n,
                             CentrList(ver, s)[(i - 1) % n])]

\* the last pass among the first n whose record carries the indices
\* (part, centr), 0 when there is none
LastPass(file, n, part, centr) ==
    LET hits == {i \in 1..n : file[i][1] = part /\ file[i][2] = centr}
    IN  IF hits = {} THEN 0 ELSE CHOOSE i \in hits : \A h \in hits : h <= i

\* ReadParams(par, parErr): N_PARTS * (number of centralities) passes of
\*   f >> p >> c >> par[p][c][0] >> par[p][c][1] >> parErr[p][c][1]
\*     >> par[p][c][2] >> parErr[p][c][2];
\* a pass after the end of the file fails and stores nothing, so a cell ends
\* with the tokens of the last pass that named it, or with its old value
ReadParams(ver, s, file, par, parErr) ==
    LET limit == N_PARTS * NLoop(ver, s)
        n == IF Len(file) < limit THEN Len(file) ELSE limit
    IN  [par |-> [part \in DOMAIN par |-> [centr \in DOMAIN par[part] |->
                    LET i == LastPass(file, n, part, centr)
                    IN  IF i = 0 THEN par[part][centr]
                        ELSE [par[part][centr] EXCEPT ![0] = Parse(file[i][3]),
                                                      ![1] = Parse(file[i][4]),
                                                      ![2] = Parse(file[i][6])]]],
         err |-> [part \in DOMAIN parErr |-> [centr \in DOMAIN parErr[part] |->
                    LET i == LastPass(file, n, part, centr)
                    IN  IF i = 0 THEN parErr[part][centr]
                        ELSE [parErr[part][centr] EXCEPT ![1] = Parse(file[i][5]),
                                                         ![2] = Parse(file[i][7])]]]]

\* the value a local double holds before anything was stored in it
Uninit == -1

\* number of passes of the inner loop of ReadParams(part, centr, par) in
\* src/WriteReadFiles.h and src/input/WriteReadFiles.h, from its position j on:
\* for (int centr_ : CENTR) { f >> ...; if (centr_ == centr) break; }
RECURSIVE ReadParams1_inner_root(_, _, _)
ReadParams1_inner_root(ver, j, centr) ==
    IF j >= NLoop(ver, 0) THEN 0
    ELSE IF CentrList(ver, 0)[j] = centr THEN 1
    ELSE 1 + ReadParams1_inner_root(ver, j + 1, centr)

\* the same for the headers version: the body declares its own
\* centr = CENTR_SYST[systN][j], and the test if (j == centr) reads that one
RECURSIVE ReadParams1_inner_headers(_, _, _)
ReadParams1_inner_headers(j, centr, s) ==
    IF j >= N_CENTR_SYST[s] THEN 0
    ELSE LET centr_body == CENTR_SYST[s][j]
         IN  IF j = centr_body THEN 1
             ELSE 1 + ReadParams1_inner_headers(j + 1, centr, s)

\* number of passes of the whole function, from particle part_ on:
\* for (int part_ : PARTS) { inner loop; par[3] = masses[part];
\*                           if (part_ == part) break; }
RECURSIVE ReadParams1_outer(_, _, _, _, _)
ReadParams1_outer(ver, s, part_, part, centr) ==
    IF part_ >= N_PARTS THEN 0
    ELSE LET inner == IF ver = "headers" THEN ReadParams1_inner_headers(0, centr, s)
                      ELSE ReadParams1_inner_root(ver, 0, centr)
         IN  IF part_ = part THEN inner
             ELSE inner + ReadParams1_outer(ver, s, part_ + 1, part, centr)

\* ReadParams(part, centr, par): every pass reads the next record into
\* par[0], par[1], par[2], so par ends with the tokens of the last pass that
\* found a record; a pass after the end of the file stores nothing
ReadParams1(ver, s, file, part, centr) ==
    LET passes == ReadParams1_outer(ver, s, 0, part, centr)
        last == IF passes <= Len(file) THEN passes ELSE Len(file)
    IN  IF last = 0 THEN << Uninit, Uninit, Uninit, masses[part] >>
        ELSE << Parse(file[last][3]), Parse(file[last][4]), Parse(file[last][6]),
                masses[part] >>

\* tmpPar / tmpParErr after the pass number i of ReadParam: the tokens of
\* record i, or what the last successful pass left (zeros before any)
ReadParam_tmp(file, i) ==
    LET last == IF i <= Len(file) THEN i ELSE Len(file)
    IN  IF last = 0 THEN [par |-> [k \in 0..3 |-> 0], err |-> [k \in 0..3 |-> 0]]
        ELSE LET rec == file[last]
             IN  [par |-> [k \in 0..3 |-> CASE k = 0 -> Parse(rec[3])
                                            [] k = 1 -> Parse(rec[4])
                                            [] k = 2 -> Parse(rec[6])
                                            [] OTHER -> 0],
                  err |-> [k \in 0..3 |-> CASE k = 1 -> Parse(rec[5])
                                            [] k = 2 -> Parse(rec[7])
                                            [] OTHER -> 0]]

\* position of centr in the list the loops visit, 0 when it is not visited
RECURSIVE LoopIndex(_, _, _)
LoopIndex(list, n, centr) ==
    IF n = 0 THEN 0
    ELSE IF list[n - 1] = centr THEN n ELSE LoopIndex(list, n - 1, centr)

\* ReadParam(parN, par, parErr): pass number part * n + j + 1 stores
\* tmpPar[parN] into par[part][CENTR_SYST[systN][j]]; other cells keep their value
ReadParam(ver, s, file, parN, par, parErr) ==
    LET n == NLoop(ver, s)
        list == CentrList(ver, s)
        pass(part, centr) == part * n + LoopIndex(list, n, centr)
    IN  [par |-> [part \in PARTS_ |-> [centr \in 0..(IoN_CENTR(ver) - 1) |->
                    IF LoopIndex(list, n, centr) = 0 THEN par[part][centr]
                    ELSE ReadParam_tmp(file, pass(part, centr)).par[parN]]],
         err |-> [part \in PARTS_ |-> [centr \in 0..(IoN_CENTR(ver) - 1) |->
                    IF LoopIndex(list, n, centr) = 0 THEN parErr[part][centr]
                    ELSE ReadParam_tmp(file, pass(part, centr)).err[parN]]]]

\* fitted values of all cells: the digits name the cell and the column, the
\* seventh digit is seed
ParVal(seed, part, centr, k) == 1000000 + 100000 * part + 1000 * centr + 100 * k + seed

FilledPar(ver, seed, shift) ==
    [part \in PARTS_ |-> [centr \in 0..(IoN_CENTR(ver) - 1) |->
        [k \in 0..3 |-> ParVal(seed, part, centr, k + shift)]]]

\* the empty line WriteGlobalParams puts before an appended block
Blank == <<>>

\* the records a stream of operator>> sees: empty lines are white space
Records(lines) == SelectSeq(lines, LAMBDA l : l # Blank)

\* one line of WriteGlobalParams with the five values in reverse order
WriteGlobalParams_line_reversed(mem, charge, centr) ==
    << charge, centr,
       Format(mem[Addr("Global", charge, centr, 4)]),
       Format(mem[Addr("Global", charge, centr, 3)]),
       Format(mem[Addr("Global", charge, centr, 2)]),
       Format(mem[Addr("Global", charge, centr, 1)]),
       Format(mem[Addr("Global", charge, centr, 0)]) >>

\* txtFile << charge << centr << paramsGlobal[charge][centr][0] << ... << [4] << endl
WriteGlobalParams_line(mem, charge, centr) ==
    << charge, centr,
       Format(mem[Addr("Global", charge, centr, 0)]),
       Format(mem[Addr("Global", charge, centr, 1)]),
       Format(mem[Addr("Global", charge, centr, 2)]),
       Format(mem[Addr("Global", charge, centr, 3)]),
       Format(mem[Addr("Global", charge, centr, 4)]) >>

\* WriteGlobalParams that opens the file for appending whatever the flag is
WriteGlobalParams_alwaysAppend(flag, file, mem, charge, s) ==
    LET block == [j \in 1..N_CENTR_SYST[s] |->
                     WriteGlobalParams_line(mem, charge, CENTR_SYST[s][j - 1])]
    IN  [exists |-> TRUE,
         lines |-> IF file.exists THEN file.lines \o << Blank >> \o block ELSE block]

\* WriteGlobalParams(&isParamsFileExist, charge, systN, filename): the file
\* after the call.  With the flag set the file is opened for appending and an
\* empty line goes first; otherwise the file is truncated.
WriteGlobalParams(flag, file, mem, charge, s) ==
    LET block == [j \in 1..N_CENTR_SYST[s] |->
                     WriteGlobalParams_line(mem, charge, CENTR_SYST[s][j - 1])]
    IN  [exists |-> TRUE,
         lines |-> IF flag THEN file.lines \o << Blank >> \o block ELSE block]

\* the ReadGlobalParams of input/headers (inner loop over the centralities of
\* its systN argument) and of input/ (inner loop over CENTR)
Readers == {[ver |-> "headers", systN |-> s] : s \in SYSTS}
               \cup {[ver |-> "input", systN |-> 0]}

\* passes of the inner loop in one round of while (true)
ReadGlobalParams_inner(rd) ==
    IF rd.ver = "input" THEN N_CENTR_input ELSE N_CENTR_SYST[rd.systN]

\* one round of while (true): n passes of
\*   txtFile >> charge >> centr >> paramsGlobal[charge][centr][0] >> ... >> [4];
\* starting after pos records.  A pass after the end of the file stores
\* nothing; a cell ends with the tokens of the last pass that named it.
ReadGlobalParams_round(recs, pos, n, mem) ==
    LET last == IF pos + n < Len(recs) THEN pos + n ELSE Len(recs)
        base(i) == Addr("Global", recs[i][1], recs[i][2], 0)
        hits(a) == {i \in (pos + 1)..last : a >= base(i) /\ a < base(i) + N_PARAMS_CELL}
    IN  [a \in DOMAIN mem |->
            IF hits(a) = {} THEN mem[a]
            ELSE LET i == CHOOSE h \in hits(a) : \A g \in hits(a) : g <= h
                 IN  Parse(recs[i][3 + (a - base(i))])]

\* paramsGlobal after the global fits of both charges over the centralities of
\* system s; cells of other centralities keep the zero of the global array
FilledGlobal(seed, s) ==
    [a \in 0..(MemSize("Global") - 1) |->
        LET cell == a \div N_PARAMS_CELL
            charge == cell \div N_CENTR_input
            centr == cell % N_CENTR_input
        IN  IF centr \in Centralities("Global", s)
            THEN ParVal(seed, charge, centr, a % N_PARAMS_CELL)
            ELSE 0]

----------------------------------------------------------------------------
(* BlastWaveFit::Fit and the contour plots.  The fitter and Minuit are       *)
(* external: which fits are invalid and which contours come back null is     *)
(* fixed for a run by the pattern pat.                                       *)

N_SIGMA_root == 2
N_SIGMA_input == 7

\* gMinuit->Contour(...) returned a null pointer
ContourNull(pat, part, centr, s) ==
    pat = 1 \/ (pat >= 2 /\ (part + centr + s) % pat # 0)

\* fitResult->IsValid()
FitValid(pat, part, centr) == pat < 2 \/ (part + 2 * centr) % (pat + 1) # 0

\* T_err < 1e-10 || beta_err < 1e-10
ErrsTiny(pat, part, centr) == pat >= 2 /\ (part + 2 * centr) % (pat + 1) = 1

\* the loop of GetContourPlots leaving at the first null contour
GetContourPlots_loop_stopAtNull(ns, pat, part, centr, st) ==
    LET levels == {l \in 1..(ns - 1) :
                      \A m \in 1..(l - 1) : ~ContourNull(pat, part, centr, m)}
        ok  == {<<part, centr, l>> : l \in {m \in levels : ~ContourNull(pat, part, centr, m)}}
        bad == {<<part, centr, l>> : l \in {m \in levels : ContourNull(pat, part, centr, m)}}
    IN  [contour |-> (st.contour \ bad) \cup ok,
         styled  |-> st.styled \cup ok,
         diag    |-> st.diag \cup bad,
         nDiag   |-> st.nDiag + Cardinality(bad)]

\* for (s = 1; s < N_SIGMA; s++) { contour[part][centr][s] = Contour(...);
\*     if (contour[part][centr][s]) { set its style } else print one line }
GetContourPlots_loop(ns, pat, part, centr, st) ==
    LET levels == 1..(ns - 1)
        ok  == {<<part, centr, l>> : l \in {m \in levels : ~ContourNull(pat, part, centr, m)}}
        bad == {<<part, centr, l>> : l \in {m \in levels : ContourNull(pat, part, centr, m)}}
    IN  [contour |-> (st.contour \ bad) \cup ok,
         styled  |-> st.styled \cup ok,
         diag    |-> st.diag \cup bad,
         nDiag   |-> st.nDiag + Cardinality(bad)]

\* GetContourPlots of src/BlastWaveFit.h, src/input/BlastWaveFit.h and BlastWave.C
GetContourPlots(ns, pat, part, centr, st) ==
    GetContourPlots_loop(ns, pat, part, centr, st)

\* GetContourPlots of src/input/headers/BlastWaveFit.h: gMinuit was set by Fit;
\* with too small uncertainties it returns before the loop
\* the version without the test of the uncertainties
GetContourPlots_headers_noErrTest(pat, part, centr, st) ==
    GetContourPlots_loop(N_SIGMA_input, pat, part, centr, st)

\* GetContourPlots of the headers version: gMinuit is the TMinuit Fit made
\* before its loops, so the null test passes; the loop runs unless the
\* uncertainty of T or of beta is below 1e-10
GetContourPlots_headers(pat, part, centr, st) ==
    IF ErrsTiny(pat, part, centr) THEN st
    ELSE GetContourPlots_loop(N_SIGMA_input, pat, part, centr, st)

\* the object of a legend entry made from a null pointer
NullObj == 0

\* bool isContour = false; at the top of BlastWave()
BlastWave_isContour == FALSE

\* the cells the drawing loops of a macro visit
DrawCells(ver, s) ==
    {<<part, CentrList(IF ver = "BlastWave" THEN "root" ELSE ver, s)[j]>> :
        part \in PARTS_,
        j \in 0..(NLoop(IF ver = "BlastWave" THEN "root" ELSE ver, s) - 1)}

\* the sigma levels of a cell whose contour is not null
Levels(con, ns, part, centr) == {l \in 1..(ns - 1) : <<part, centr, l>> \in con}

\* the legend entry of a cell made from contour[part][centr][1] as it is
firstValidContour_level1(con, ns, part, centr) ==
    IF <<part, centr, 1>> \in con THEN 1 ELSE NullObj

\* firstValidContour of BlastWaveFinal_all: the first level that is not
\* null; the caller has made sure there is one
firstValidContour(con, ns, part, centr) ==
    IF Levels(con, ns, part, centr) = {} THEN NullObj
    ELSE CHOOSE l \in Levels(con, ns, part, centr) :
             \A m \in Levels(con, ns, part, centr) : l <= m

\* contour drawing of BlastWaveFinal_all: nothing when no contour exists at
\* all; otherwise every cell with a contour gets one legend entry and each of
\* its contours is styled and drawn
Draw_FinalAll(con, s, st) ==
    LET cells == DrawCells("headers", s)
        has == {c \in cells : Levels(con, N_SIGMA_input, c[1], c[2]) # {}}
        shown == {t \in con : <<t[1], t[2]>> \in has}
    IN  IF has = {} THEN st
        ELSE [styled |-> st.styled \cup shown,
              drawn  |-> st.drawn \cup shown,
              legend |-> st.legend \cup
                         {[part |-> c[1], centr |-> c[2],
                           obj |-> firstValidContour(con, N_SIGMA_input, c[1], c[2])] :
                              c \in has},
              diag   |-> st.diag,
              nDiag  |-> st.nDiag]

\* contour drawing of BlastWave: nothing unless isContour; otherwise every
\* cell gets a legend entry made from contour[part][centr][1], each contour
\* that is not null is drawn and each null one prints a line
Draw_BlastWave(con, flag, st) ==
    LET cells == DrawCells("BlastWave", 0)
        all == {<<c[1], c[2], l>> : c \in cells, l \in 1..(N_SIGMA_root - 1)}
    IN  IF ~flag THEN st
        ELSE [styled |-> st.styled,
              drawn  |-> st.drawn \cup (all \cap con),
              legend |-> st.legend \cup
                         {[part |-> c[1], centr |-> c[2],
                           obj |-> IF <<c[1], c[2], 1>> \in con THEN 1 ELSE NullObj] :
                              c \in cells},
              diag   |-> st.diag \cup (all \ con),
              nDiag  |-> st.nDiag + Cardinality(all \ con)]

\* number of centralities the fit loop visits for one particle
FitLoopN(ver, s) ==
    IF ver \in {"root", "BlastWave"} THEN N_CENTR_root ELSE N_CENTR_SYST[s]

\* for (int centr : CENTR)  /  centr = CENTR_SYST[systN][j]
FitLoopCentr(ver, s, j) ==
    IF ver \in {"root", "BlastWave"} THEN CentrList("root", 0)[j] ELSE CENTR_SYST[s][j]

\* ReadGlobalParams on a file that exists: all its rounds together store the
\* records in file order
ReadGlobalParams(file, mem) ==
    LET recs == Records(file.lines)
    IN  ReadGlobalParams_round(recs, 0, Len(recs), mem)

\* {con[part], 0.09, 0.75, masses[part]}
CustomParams(part) == << 4000000 + 100000 * part, 4000009, 4000075, masses[part] >>

\* {handConst[part][centr], handT[centr], handBeta[centr], masses[part]}
HandParams(part, centr) ==
    << 3000000 + 100000 * part + 1000 * centr, 3000100 + 1000 * centr,
       3000200 + 1000 * centr, masses[part] >>

\* the parameters the function of the cell starts from, by initParamsType
FitStart(ver, type, s, mem, pfile, part, centr) ==
    CASE type = 0 -> IF ver = "headers" THEN getGlobalParams_headers(mem, part, centr)
                                        ELSE getGlobalParams(mem, part, centr)
      [] type = 1 -> ReadParams1(ver, s, pfile, part, centr)
      [] type = 2 -> CustomParams(part)
      [] type = 3 -> HandParams(part, centr)

\* ifuncx[part][centr]->GetParameters() after the fit of the cell
FitOut(part, centr) ==
    << 2000000 + 100000 * part + 1000 * centr, 2000100 + 100000 * part + 1000 * centr,
       2000200 + 100000 * part + 1000 * centr, masses[part] >>

\* ifuncx[part][centr]->GetParErrors() after the fit of the cell
FitOutErr(part, centr) ==
    << 2000050 + 100000 * part + 1000 * centr, 2000150 + 100000 * part + 1000 * centr,
       2000250 + 100000 * part + 1000 * centr, 0 >>

\* a double[4] holding the values of a tuple
ToCell(t) == [k \in 0..3 |-> t[k + 1]]

\* the array members of a new BlastWaveFit: nothing stored yet
UninitPar(ver) ==
    [part \in PARTS_ |-> [centr \in 0..(IoN_CENTR(ver) - 1) |-> [k \in 0..3 |-> Uninit]]]

\* the skip written as a return: the loops are left
NextCell_return(skip, cur, total) == IF skip THEN total ELSE cur + 1

\* the cell after the current one: continue and the end of the body both go
\* to the next centrality, then to the next particle
NextCell(skip, cur, total) == cur + 1

\* cells whose constant is zero in the files of a run, by pattern z
ZeroCell(z, part, centr) ==
    z > 0 /\ part = (2 * (z - 1)) % N_PARTS /\ centr \in {z - 1, z}

\* paramsGlobal of the global fit whose file the run reads
ZeroedGlobal(z, s) ==
    [a \in 0..(MemSize("Global") - 1) |->
        LET cell == a \div N_PARAMS_CELL
            charge == cell \div N_CENTR_input
            centr == cell % N_CENTR_input
            k == a % N_PARAMS_CELL
        IN  IF k >= 2 /\ ZeroCell(z, 2 * (k - 2) + charge, centr) THEN 0
            ELSE FilledGlobal(0, s)[a]]

\* outParams of the individual fit whose file the run reads
ZeroedPar(ver, z) ==
    [part \in PARTS_ |-> [centr \in 0..(IoN_CENTR(ver) - 1) |->
        [k \in 0..3 |-> IF k = 0 /\ ZeroCell(z, part, centr) THEN 0
                        ELSE ParVal(0, part, centr, k)]]]

----------------------------------------------------------------------------
(* Initial values *)

\* point counts of the six loaded spectra: all equal, or differing from one
\* species to the next
GrProfiles == {[s \in 0..5 |-> 1 + ((s * m) % MaxPoints)] : m \in 0..(MaxPoints - 1)}

NoCall == <<>>

FitIdle ==
    /\ fitTerms = <<>>
    /\ fitNData = 0
    /\ fitCharge = -1
    /\ oobWrite = FALSE

ChiIdle ==
    /\ chiBlocks = NoCall
    /\ chiValue = 0

BwIdle ==
    /\ bwVersion = "root"
    /\ initParamsType = 0
    /\ isContour = FALSE
    /\ fitCur = 0
    /\ fitLog = <<>>
    /\ bwPc = "fit"

ConIdle ==
    /\ conPat = 0
    /\ contour = {}
    /\ styled = {}
    /\ diag = {}
    /\ nDiag = 0
    /\ drawn = {}
    /\ legend = {}

SpIdle ==
    /\ spVersion = "root"
    /\ spType = "mt"
    /\ spMissing = {}
    /\ spCur = 0
    /\ grSpectra = {}
    /\ spDeref = FALSE
    /\ spPc = "load"

RgIdle ==
    /\ rdFail = FALSE
    /\ rdBadStore = FALSE

DrIdle ==
    /\ drRun = <<>>
    /\ drCur = 0
    /\ drPc = "done"
    /\ fitter = <<>>
    /\ drPasses = <<>>
    /\ drStored = 0
    /\ rLimitMult = <<>>

LdIdle ==
    /\ ldRun = <<>>
    /\ ldCur = 0
    /\ ldPc = "done"
    /\ grLoaded = <<>>

PlIdle ==
    /\ plSyst = 0
    /\ plPc = "done"
    /\ plCell = 0
    /\ plWritten = {}
    /\ plRead = {}

AvIdle ==
    /\ avRun = <<>>
    /\ avPc = "done"
    /\ avCur = 0
    /\ Tpar = <<>>
    /\ utPar = <<>>
    /\ gr = <<>>
    /\ gAvgT = <<>>
    /\ gAvgUt = <<>>

SeIdle ==
    /\ seHist = << >>
    /\ sePc = "idle"

DpIdle ==
    /\ dpRun = << >>
    /\ dpPc = "idle"
    /\ dpCalls = 0
    /\ avgT = 0
    /\ avgUt = 0

SyIdle ==
    /\ syRun = << >>
    /\ syPc = "idle"
    /\ parResults = << >>
    /\ bwFit = << >>

RkIdle ==
    /\ rkRun = << >>
    /\ rkPc = "idle"
    /\ rkPos = 0
    /\ rkStores = {}

TbIdle ==
    /\ tbRun = << >>
    /\ tbCur = 0
    /\ tbLookups = {}

LbIdle ==
    /\ lbRun = << >>
    /\ lbPc = "idle"
    /\ lbCur = 0
    /\ lbN = 0
    /\ lbMaxIdx = 0 - 1
    /\ lbUsedN = FALSE

SbIdle ==
    /\ sbRun = << >>
    /\ sbBin = 0
    /\ sbBuf = << >>
    /\ sbGraph = << >>
    /\ sbUninit = FALSE
    /\ sbPc = "idle"

ExtIdle ==
    /\ SpIdle
    /\ RgIdle
    /\ DrIdle
    /\ LdIdle
    /\ PlIdle
    /\ AvIdle
    /\ SeIdle
    /\ DpIdle
    /\ SyIdle
    /\ RkIdle
    /\ TbIdle
    /\ LbIdle
    /\ SbIdle

GIdle ==
    /\ isParamsFileExist = FALSE
    /\ gFile = [exists |-> FALSE, lines |-> <<>>]
    /\ gWritten = <<>>
    /\ rdReader = NoCall
    /\ rdGlobal = <<>>
    /\ rdPos = 0
    /\ rdPc = "idle"

IoIdle ==
    /\ ioVersion = "root"
    /\ outParams = <<>>
    /\ outParamsErr = <<>>
    /\ paramFile = <<>>
    /\ rdPar = <<>>
    /\ rdParErr = <<>>
    /\ rdCell = NoCall
    /\ rdParam = NoCall

\* no global fit, no parameter file and no BlastWaveFit are in play
CoreIdle ==
    /\ prog = "Global"
    /\ systN = 0
    /\ chiCharge = 0
    /\ chiPar = NoCall
    /\ ChiIdle
    /\ grN = [s \in 0..5 |-> 1]
    /\ FitIdle
    /\ paramsGlobal = <<>>
    /\ fitResults = <<>>
    /\ IoIdle
    /\ GIdle
    /\ BwIdle
    /\ ConIdle

coreVars == <<prog, systN, chiVars, fitVars, ioVars, gVars, bwVars, conVars>>

----------------------------------------------------------------------------
(* Specification of the chi-square functor alone *)

InitChi2 ==
    /\ prog \in PROGS
    /\ systN = 0
    /\ chiCharge \in IF prog = "Global" THEN {0, 1} ELSE {0}
    /\ chiPar \in [0..(Npar(prog) - 1) -> 0..MaxParVal]
    /\ ChiIdle
    /\ grN = [s \in 0..5 |-> 1]
    /\ FitIdle
    /\ paramsGlobal = [a \in 0..(MemSize(prog) - 1) |-> 0]
    /\ fitResults = [c \in (0..(N_ROWS(prog) - 1)) \X (0..(N_CENTR(prog) - 1)) |-> 0]
    /\ IoIdle
    /\ GIdle
    /\ BwIdle
    /\ ConIdle
    /\ ExtIdle

\* the fitter evaluates the functor at the parameter vector chiPar
EvalGlobalChi2 ==
    /\ chiBlocks = NoCall
    /\ chiBlocks' = GlobalChi2_p(prog, chiPar)
    /\ chiValue' = GlobalChi2(prog, chiCharge, chiPar)
    /\ UNCHANGED <<prog, systN, chiCharge, chiPar, fitVars, ioVars, gVars, bwVars, conVars, extVars>>

NextChi2 == EvalGlobalChi2

SpecChi2 == InitChi2 /\ [][NextChi2]_vars

----------------------------------------------------------------------------
(* Specification of the global fit drivers *)

InitGlobalFit ==
    /\ prog \in PROGS
    /\ systN \in IF prog = "AllParts" THEN {0} ELSE SYSTS
    /\ chiCharge = 0
    /\ chiPar = NoCall
    /\ ChiIdle
    /\ grN \in GrProfiles
    /\ FitIdle
    /\ paramsGlobal = [a \in 0..(MemSize(prog) - 1) |-> 0]
    /\ fitResults = [c \in (0..(N_ROWS(prog) - 1)) \X (0..(N_CENTR(prog) - 1)) |-> 0]
    /\ IoIdle
    /\ GIdle
    /\ BwIdle
    /\ ConIdle
    /\ ExtIdle

\* GlobalFitCentr(centr, charge): builds the terms, runs the fitter, stores
\* fitResults[0 .. Npar-1] into the cell of (charge, centr)
GlobalFitCentr(centr, charge) ==
    LET cd == CountedData(prog, charge)
        sz == [i \in DOMAIN cd |-> grN[cd[i]]]
    IN  /\ fitTerms' = Terms(prog, charge)
        /\ fitNData' = SumTo(sz, Nfunc(prog) - 1)
        /\ fitCharge' = charge
        /\ \E b \in 1..MaxFit :
              /\ paramsGlobal' = StoreResults(prog, paramsGlobal, charge, centr,
                                              FitResultVec(Npar(prog), b), NStore(prog))
              /\ fitResults' = [fitResults EXCEPT ![<<charge, centr>>] = b]
        /\ oobWrite' = (oobWrite \/
                        Addr(prog, charge, centr, NStore(prog) - 1) >= MemSize(prog))
        /\ UNCHANGED <<prog, systN, chiVars, grN, ioVars, gVars, bwVars, conVars, extVars>>

\* BlastWaveGlobal.C
GlobalFitCentr_Global ==
    /\ prog = "Global"
    /\ \E centr \in Centralities(prog, systN), charge \in {0, 1} :
          /\ centr < MaxCentr
          /\ GlobalFitCentr(centr, charge)

\* BlastWaveGlobal_all.C
GlobalFitCentr_all ==
    /\ prog = "Global_all"
    /\ \E centr \in Centralities(prog, systN), charge \in {0, 1} :
          /\ centr < MaxCentr
          /\ GlobalFitCentr(centr, charge)

\* BlastWaveGlobalAllParts.C
GlobalFitCentr_AllParts ==
    /\ prog = "AllParts"
    /\ \E centr \in Centralities(prog, systN) :
          /\ centr < MaxCentr
          /\ GlobalFitCentr(centr, 0)

NextGlobalFit ==
    \/ GlobalFitCentr_Global
    \/ GlobalFitCentr_all
    \/ GlobalFitCentr_AllParts

SpecGlobalFit == InitGlobalFit /\ [][NextGlobalFit]_vars

----------------------------------------------------------------------------
(* Specification of the individual-fit parameter file: one macro writes     *)
(* outParams / outParamsErr with WriteParams, then the readers are called   *)
(* on that file.                                                            *)

InitParamFile ==
    /\ prog = "Global"
    /\ ioVersion \in IO_VERSIONS
    /\ systN \in IF ioVersion = "root" THEN {0} ELSE SYSTS
    /\ chiCharge = 0
    /\ chiPar = NoCall
    /\ ChiIdle
    /\ grN = [s \in 0..5 |-> 1]
    /\ FitIdle
    /\ paramsGlobal = <<>>
    /\ fitResults = <<>>
    /\ \E seed \in 0..MaxSeed :
          /\ outParams = FilledPar(ioVersion, seed, 0)
          /\ outParamsErr = FilledPar(ioVersion, seed, 4)
    /\ paramFile = <<>>
    /\ rdPar = ZeroPar(ioVersion)
    /\ rdParErr = ZeroPar(ioVersion)
    /\ rdCell = NoCall
    /\ rdParam = NoCall
    /\ GIdle
    /\ BwIdle
    /\ ConIdle
    /\ ExtIdle

\* WriteParams(outParams, outParamsErr) / WriteParams(systN, outParams, outParamsErr, true)
Call_WriteParams ==
    /\ paramFile = <<>>
    /\ paramFile' = WriteParams(ioVersion, systN, outParams, outParamsErr)
    /\ UNCHANGED <<prog, systN, chiVars, fitVars, ioVersion, outParams, outParamsErr,
                   rdPar, rdParErr, rdCell, rdParam, gVars, bwVars, conVars, extVars>>

\* ReadParams(par, parErr) on the written file
Call_ReadParams ==
    /\ paramFile # <<>>
    /\ LET r == ReadParams(ioVersion, systN, paramFile, rdPar, rdParErr)
       IN  /\ rdPar' = r.par
           /\ rdParErr' = r.err
    /\ UNCHANGED <<prog, systN, chiVars, fitVars, ioVersion, outParams, outParamsErr,
                   paramFile, rdCell, rdParam, gVars, bwVars, conVars, extVars>>

\* ReadParams(part, centr, par) on the written file, par a fresh local array
Call_ReadParams1 ==
    /\ paramFile # <<>>
    /\ \E part \in PARTS_, j \in 0..(NLoop(ioVersion, systN) - 1) :
          LET centr == CentrList(ioVersion, systN)[j]
          IN  rdCell' = [part |-> part, centr |-> centr,
                         par |-> ReadParams1(ioVersion, systN, paramFile, part, centr)]
    /\ UNCHANGED <<prog, systN, chiVars, fitVars, ioVersion, outParams, outParamsErr,
                   paramFile, rdPar, rdParErr, rdParam, gVars, bwVars, conVars, extVars>>

\* ReadParam(parN, par, parErr) on the written file, par and parErr zeroed globals
Call_ReadParam ==
    /\ paramFile # <<>>
    /\ \E parN \in 0..2 :
          LET r == ReadParam(ioVersion, systN, paramFile, parN,
                             ZeroPar2(ioVersion), ZeroPar2(ioVersion))
          IN  rdParam' = [parN |-> parN, par |-> r.par, err |-> r.err]
    /\ UNCHANGED <<prog, systN, chiVars, fitVars, ioVersion, outParams, outParamsErr,
                   paramFile, rdPar, rdParErr, rdCell, gVars, bwVars, conVars, extVars>>

NextParamFile ==
    \/ Call_WriteParams
    \/ Call_ReadParams
    \/ Call_ReadParams1
    \/ Call_ReadParam

SpecParamFile == InitParamFile /\ [][NextParamFile]_vars

----------------------------------------------------------------------------
(* Specification of the global-fit parameter file: the macro writes blocks   *)
(* of paramsGlobal with WriteGlobalParams, a later session reads the file    *)
(* with ReadGlobalParams into a zeroed paramsGlobal.                        *)

InitGlobalFile ==
    /\ prog = "Global"
    /\ systN \in SYSTS
    /\ chiCharge = 0
    /\ chiPar = NoCall
    /\ ChiIdle
    /\ grN = [s \in 0..5 |-> 1]
    /\ FitIdle
    /\ \E seed \in 0..MaxSeed : paramsGlobal = FilledGlobal(seed, systN)
    /\ fitResults = <<>>
    /\ IoIdle
    /\ isParamsFileExist = FALSE
    /\ gFile = [exists |-> FALSE, lines |-> <<>>]
    /\ gWritten = <<>>
    /\ rdReader = NoCall
    /\ rdGlobal = [a \in 0..(MemSize("Global") - 1) |-> 0]
    /\ rdPos = 0
    /\ rdPc = "idle"
    /\ BwIdle
    /\ ConIdle
    /\ ExtIdle

\* WriteGlobalParams(&isParamsFileExist, charge, systN, file)
Call_WriteGlobalParams ==
    /\ rdPc = "idle"
    /\ Len(gWritten) < MaxBlocks
    /\ \E charge \in {0, 1} :
          /\ gFile' = WriteGlobalParams(isParamsFileExist, gFile, paramsGlobal,
                                        charge, systN)
          /\ gWritten' = IF isParamsFileExist THEN Append(gWritten, charge)
                                             ELSE << charge >>
    /\ isParamsFileExist' = TRUE
    /\ UNCHANGED <<prog, systN, chiVars, fitVars, ioVars,
                   rdReader, rdGlobal, rdPos, rdPc, bwVars, conVars, extVars>>

\* ReadGlobalParams is entered: txtFile.open(filename)
ReadGlobalParams_open ==
    /\ rdPc = "idle"
    /\ \E rd \in Readers : rdReader' = rd
    /\ rdPos' = 0
    /\ rdPc' = "reading"
    /\ UNCHANGED <<prog, systN, chiVars, fitVars, ioVars,
                   isParamsFileExist, gFile, gWritten, rdGlobal, bwVars, conVars, extVars>>

\* one round of while (true) { inner loop; if (txtFile.eof()) break; }.
\* On a file that could not be opened every extraction fails without
\* reaching an end of file, so the round changes nothing and eof() stays false.
ReadGlobalParams_while ==
    /\ rdPc = "reading"
    /\ IF gFile.exists
       THEN LET recs == Records(gFile.lines)
                n == ReadGlobalParams_inner(rdReader)
                eof == rdPos + n > Len(recs)
            IN  /\ rdGlobal' = ReadGlobalParams_round(recs, rdPos, n, rdGlobal)
                /\ rdPos' = IF eof THEN Len(recs) ELSE rdPos + n
                /\ rdPc' = IF eof THEN "done" ELSE "reading"
       ELSE UNCHANGED <<rdGlobal, rdPos, rdPc>>
    /\ UNCHANGED <<prog, systN, chiVars, fitVars, ioVars,
                   isParamsFileExist, gFile, gWritten, rdReader, bwVars, conVars, extVars>>

NextGlobalFile ==
    \/ Call_WriteGlobalParams
    \/ ReadGlobalParams_open
    \/ ReadGlobalParams_while

\* a running ReadGlobalParams keeps executing its loop
SpecGlobalFile ==
    InitGlobalFile /\ [][NextGlobalFile]_vars /\ WF_vars(ReadGlobalParams_while)

----------------------------------------------------------------------------
(* Specification of BlastWaveFit::Fit: the loop over (part, centr), one     *)
(* cell per step, on parameter files written by earlier runs.               *)

InitFit ==
    /\ prog = "Global"
    /\ bwVersion \in FIT_VERSIONS
    /\ ioVersion = bwVersion
    /\ systN \in IF bwVersion = "root" THEN {0} ELSE SYSTS
    /\ initParamsType \in 0..3
    /\ isContour \in IF bwVersion = "headers" THEN BOOLEAN ELSE {FALSE}
    /\ chiCharge = 0
    /\ chiPar = NoCall
    /\ ChiIdle
    /\ grN = [s \in 0..5 |-> 1]
    /\ FitIdle
    /\ paramsGlobal = [a \in 0..(MemSize("Global") - 1) |-> 0]
    /\ fitResults = <<>>
    /\ \E z \in 0..MaxZero :
          /\ gFile = WriteGlobalParams(TRUE,
                        WriteGlobalParams(FALSE, [exists |-> FALSE, lines |-> <<>>],
                                          ZeroedGlobal(z, systN), 0, systN),
                        ZeroedGlobal(z, systN), 1, systN)
          /\ paramFile = WriteParams(ioVersion, systN, ZeroedPar(ioVersion, z),
                                     FilledPar(ioVersion, 0, 4))
    /\ outParams = UninitPar(ioVersion)
    /\ outParamsErr = UninitPar(ioVersion)
    /\ rdPar = <<>>
    /\ rdParErr = <<>>
    /\ rdCell = NoCall
    /\ rdParam = NoCall
    /\ isParamsFileExist = FALSE
    /\ gWritten = << 0, 1 >>
    /\ rdReader = NoCall
    /\ rdGlobal = <<>>
    /\ rdPos = 0
    /\ rdPc = "idle"
    /\ fitCur = 0
    /\ fitLog = <<>>
    /\ bwPc = "fit"
    /\ conPat \in IF bwVersion = "headers" THEN 0..MaxPat ELSE {0}
    /\ contour = {}
    /\ styled = {}
    /\ diag = {}
    /\ nDiag = 0
    /\ drawn = {}
    /\ legend = {}
    /\ ExtIdle

\* one pass of the body of the loops of Fit(initParamsType), for the cell the
\* loops have reached (case 0 on a missing file does not return from
\* ReadGlobalParams)
Fit_cell ==
    /\ bwVersion \in FIT_VERSIONS
    /\ bwPc = "fit"
    /\ initParamsType = 0 => gFile.exists
    /\ LET n == FitLoopN(bwVersion, systN)
           total == N_PARTS * n
           part == fitCur \div n
           centr == FitLoopCentr(bwVersion, systN, fitCur % n)
           mem == IF initParamsType = 0 THEN ReadGlobalParams(gFile, paramsGlobal)
                                        ELSE paramsGlobal
           start == FitStart(bwVersion, initParamsType, systN, mem, paramFile, part, centr)
           skip == initParamsType \in {0, 1} /\ start[1] = 0
           fits == ~skip /\ initParamsType \in 0..2
           checked == bwVersion = "headers" /\ initParamsType = 0 /\ ~skip
           plots == /\ checked
                    /\ FitValid(conPat, part, centr)
                    /\ isContour
           st == [contour |-> contour, styled |-> styled, diag |-> diag, nDiag |-> nDiag]
           st2 == IF plots THEN GetContourPlots_headers(conPat, part, centr, st) ELSE st
       IN  /\ paramsGlobal' = mem
           /\ outParams' =
                 IF skip THEN outParams
                 ELSE [outParams EXCEPT ![part][centr] =
                          ToCell(IF fits THEN FitOut(part, centr) ELSE start)]
           /\ outParamsErr' =
                 IF skip THEN outParamsErr
                 ELSE [outParamsErr EXCEPT ![part][centr] =
                          IF fits THEN ToCell(FitOutErr(part, centr))
                                  ELSE [k \in 0..3 |-> 0]]
           /\ fitLog' = Append(fitLog, [part |-> part, centr |-> centr,
                                        start |-> start[1], fitted |-> fits,
                                        copied |-> ~skip,
                                        looped |-> plots /\ ~ErrsTiny(conPat, part, centr),
                                        valid |-> checked /\ FitValid(conPat, part, centr),
                                        failed |-> checked /\ ~FitValid(conPat, part, centr),
                                        tiny |-> plots /\ ErrsTiny(conPat, part, centr)])
           /\ fitCur' = NextCell(skip, fitCur, total)
           /\ bwPc' = IF NextCell(skip, fitCur, total) >= total THEN "fitted" ELSE "fit"
           /\ contour' = st2.contour
           /\ styled' = st2.styled
           /\ diag' = st2.diag
           /\ nDiag' = st2.nDiag
    /\ UNCHANGED <<prog, systN, chiVars, grN, fitTerms, fitNData, fitCharge, fitResults,
                   oobWrite, ioVersion, paramFile, rdPar, rdParErr, rdCell, rdParam,
                   gVars, bwVersion, initParamsType, isContour, conPat, drawn, legend, extVars>>

NextFit == Fit_cell

SpecFit == InitFit /\ [][NextFit]_vars

----------------------------------------------------------------------------
(* Specification of the contour plots: BlastWaveFinal_all (Fit(0) of the     *)
(* headers version with isContour set, then the drawing), BlastWave (its own *)
(* loop, then the drawing), and GetContourPlots of src/BlastWaveFit.h, which *)
(* no macro calls, applied to the cells one after the other.                *)

InitContour ==
    /\ prog = "Global"
    /\ bwVersion \in {"headers", "BlastWave", "root"}
    /\ ioVersion = IF bwVersion = "BlastWave" THEN "root" ELSE bwVersion
    /\ systN \in IF bwVersion = "headers" THEN SYSTS ELSE {0}
    /\ initParamsType = IF bwVersion = "BlastWave" THEN 3 ELSE 0
    /\ isContour = IF bwVersion = "BlastWave" THEN BlastWave_isContour ELSE TRUE
    /\ chiCharge = 0
    /\ chiPar = NoCall
    /\ ChiIdle
    /\ grN = [s \in 0..5 |-> 1]
    /\ FitIdle
    /\ paramsGlobal = [a \in 0..(MemSize("Global") - 1) |-> 0]
    /\ fitResults = <<>>
    /\ \E z \in IF bwVersion = "headers" THEN 0..MaxZero ELSE {0} :
          gFile = WriteGlobalParams(TRUE,
                     WriteGlobalParams(FALSE, [exists |-> FALSE, lines |-> <<>>],
                                       ZeroedGlobal(z, systN), 0, systN),
                     ZeroedGlobal(z, systN), 1, systN)
    /\ paramFile = <<>>
    /\ outParams = UninitPar(ioVersion)
    /\ outParamsErr = UninitPar(ioVersion)
    /\ rdPar = <<>>
    /\ rdParErr = <<>>
    /\ rdCell = NoCall
    /\ rdParam = NoCall
    /\ isParamsFileExist = FALSE
    /\ gWritten = << 0, 1 >>
    /\ rdReader = NoCall
    /\ rdGlobal = <<>>
    /\ rdPos = 0
    /\ rdPc = "idle"
    /\ fitCur = 0
    /\ fitLog = <<>>
    /\ bwPc = IF bwVersion = "root" THEN "plots" ELSE "fit"
    /\ conPat \in 0..MaxPat
    /\ contour = {}
    /\ styled = {}
    /\ diag = {}
    /\ nDiag = 0
    /\ drawn = {}
    /\ legend = {}
    /\ ExtIdle

\* GetContourPlots(part, centr) of src/BlastWaveFit.h on the next cell
Call_GetContourPlots ==
    /\ bwVersion = "root"
    /\ bwPc = "plots"
    /\ LET n == FitLoopN(bwVersion, systN)
           part == fitCur \div n
           centr == FitLoopCentr(bwVersion, systN, fitCur % n)
           st == [contour |-> contour, styled |-> styled, diag |-> diag, nDiag |-> nDiag]
           st2 == GetContourPlots(N_SIGMA_root, conPat, part, centr, st)
       IN  /\ contour' = st2.contour
           /\ styled' = st2.styled
           /\ diag' = st2.diag
           /\ nDiag' = st2.nDiag
           /\ fitLog' = Append(fitLog, [part |-> part, centr |-> centr, start |-> Uninit,
                                        fitted |-> FALSE, copied |-> FALSE, looped |-> TRUE,
                                        valid |-> FALSE, failed |-> FALSE, tiny |-> FALSE])
           /\ fitCur' = fitCur + 1
           /\ bwPc' = IF fitCur + 1 >= N_PARTS * n THEN "done" ELSE "plots"
    /\ UNCHANGED <<prog, systN, chiVars, fitVars, ioVars, gVars,
                   bwVersion, initParamsType, isContour, conPat, drawn, legend, extVars>>

\* one pass of the body of the loops of BlastWave(): hand parameters, no
\* fit, and if (isContour) GetContourPlots(part, centr)
BlastWave_cell ==
    /\ bwVersion = "BlastWave"
    /\ bwPc = "fit"
    /\ LET n == FitLoopN(bwVersion, systN)
           part == fitCur \div n
           centr == FitLoopCentr(bwVersion, systN, fitCur % n)
           st == [contour |-> contour, styled |-> styled, diag |-> diag, nDiag |-> nDiag]
           st2 == IF isContour
                  THEN GetContourPlots(N_SIGMA_root, conPat, part, centr, st)
                  ELSE st
       IN  /\ contour' = st2.contour
           /\ styled' = st2.styled
           /\ diag' = st2.diag
           /\ nDiag' = st2.nDiag
           /\ fitLog' = Append(fitLog, [part |-> part, centr |-> centr,
                                        start |-> HandParams(part, centr)[1],
                                        fitted |-> FALSE, copied |-> FALSE,
                                        looped |-> isContour,
                                        valid |-> FALSE, failed |-> FALSE, tiny |-> FALSE])
           /\ fitCur' = fitCur + 1
           /\ bwPc' = IF fitCur + 1 >= N_PARTS * n THEN "fitted" ELSE "fit"
    /\ UNCHANGED <<prog, systN, chiVars, fitVars, ioVars, gVars,
                   bwVersion, initParamsType, isContour, conPat, drawn, legend, extVars>>

\* BlastWave() after its loops: spectra, then if (!isContour) return, then
\* the contour drawing
BlastWave_draw ==
    /\ bwVersion = "BlastWave"
    /\ bwPc = "fitted"
    /\ LET st == [styled |-> styled, drawn |-> drawn, legend |-> legend,
                  diag |-> diag, nDiag |-> nDiag]
           st2 == Draw_BlastWave(contour, isContour, st)
       IN  /\ styled' = st2.styled
           /\ drawn' = st2.drawn
           /\ legend' = st2.legend
           /\ diag' = st2.diag
           /\ nDiag' = st2.nDiag
    /\ bwPc' = "drawn"
    /\ UNCHANGED <<prog, systN, chiVars, fitVars, ioVars, gVars,
                   bwVersion, initParamsType, isContour, fitCur, fitLog, conPat, contour, extVars>>

\* BlastWaveFinal_all() after Fit(0): WriteParams, spectra, contour drawing
BlastWaveFinal_all_draw ==
    /\ bwVersion = "headers"
    /\ bwPc = "fitted"
    /\ paramFile' = WriteParams("headers", systN, outParams, outParamsErr)
    /\ LET st == [styled |-> styled, drawn |-> drawn, legend |-> legend,
                  diag |-> diag, nDiag |-> nDiag]
           st2 == Draw_FinalAll(contour, systN, st)
       IN  /\ styled' = st2.styled
           /\ drawn' = st2.drawn
           /\ legend' = st2.legend
           /\ diag' = st2.diag
           /\ nDiag' = st2.nDiag
    /\ bwPc' = "drawn"
    /\ UNCHANGED <<prog, systN, chiVars, fitVars, ioVersion, outParams, outParamsErr,
                   rdPar, rdParErr, rdCell, rdParam, gVars,
                   bwVersion, initParamsType, isContour, fitCur, fitLog, conPat, contour, extVars>>

NextContour ==
    \/ Fit_cell
    \/ Call_GetContourPlots
    \/ BlastWave_cell
    \/ BlastWave_draw
    \/ BlastWaveFinal_all_draw

SpecContour == InitContour /\ [][NextContour]_vars

----------------------------------------------------------------------------
(* Claims about the global chi-square and the global fit drivers *)

Fitted(charge, centr) == fitResults[<<charge, centr>>] # 0

C2_TermsPairOwnData ==
    fitCharge # -1 =>
        /\ \A k \in DOMAIN fitTerms :
              /\ fitTerms[k].data = SlotSpecies(prog, fitCharge, k)
              /\ fitTerms[k].func = SlotSpecies(prog, fitCharge, k)
        /\ fitNData =
              SumTo([k \in 0..(Nfunc(prog) - 1) |->
                        grN[SlotSpecies(prog, fitCharge, k)]],
                    Nfunc(prog) - 1)

\* C3: 3-species fit: after GlobalFitCentr(centr, charge) stored r[0..4],
\* getGlobalParams(part, centr) for part % 2 = charge is
\* (r[2 + part/2], r[0], r[1], masses[part]), and slot part/2 of that fit is
\* the slot built from species part.
C3_LookupOwnConstant3 ==
    prog = "Global" =>
        \A charge \in {0, 1}, centr \in 0..(N_CENTR(prog) - 1) :
            Fitted(charge, centr) =>
                LET r == FitResultVec(5, fitResults[<<charge, centr>>])
                IN  \A part \in 0..5 :
                        part % 2 = charge =>
                            /\ getGlobalParams(paramsGlobal, part, centr)
                                  = << r[2 + part \div 2], r[0], r[1], masses[part] >>
                            /\ Terms(prog, charge)[part \div 2].data = part

\* one centrality fitted for the negative charge only: the antiproton gets
\* the third constant of that fit, the proton row is still empty
C3_Witness ==
    /\ prog = "Global"
    /\ ~Fitted(0, 1)
    /\ Fitted(1, 1)
    /\ getGlobalParams(paramsGlobal, 5, 1)[1] = 10 * fitResults[<<1, 1>>] + 4
    /\ getGlobalParams(paramsGlobal, 4, 1)[1] = 0

\* C4: 6-species fits: after GlobalFitCentr stored its results the lookup
\* returns for every species part the constant fitted for that species,
\* fit result index 2 + part.
C4_LookupOwnConstant6 ==
    /\ prog = "Global_all" =>
          \A centr \in 0..(N_CENTR(prog) - 1), part \in 0..5 :
              Fitted(part % 2, centr) =>
                  getGlobalParams_headers(paramsGlobal, part, centr)[1]
                      = FitResultVec(8, fitResults[<<part % 2, centr>>])[2 + part]
    /\ prog = "AllParts" =>
          \A centr \in 0..(N_CENTR(prog) - 1), part \in 0..5 :
              Fitted(0, centr) =>
                  getGlobalParamsAllParts(paramsGlobal, part, centr)[1]
                      = FitResultVec(8, fitResults[<<0, centr>>])[2 + part]

----------------------------------------------------------------------------
(* Claims about the individual-fit parameter file *)

\* the record of the file that carries the indices (part, centr)
RecordOf(file, part, centr) ==
    file[CHOOSE i \in DOMAIN file : file[i][1] = part /\ file[i][2] = centr]

HasRecord(file, part, centr) ==
    \E i \in DOMAIN file : file[i][1] = part /\ file[i][2] = centr

\* C5: WriteParams then ReadParams(par2, parErr2) of src/WriteReadFiles.h gives
\* back, for every (part, centr) of PARTS x CENTR, par[..][0..2] and
\* parErr[..][1..2] as their written tokens, and every line of the file is
\* part, centr, constant, T, T error, beta, beta error.
C5_RoundTripTokens ==
    (ioVersion = "root" /\ paramFile # <<>>) =>
        /\ Len(paramFile) = N_PARTS * N_CENTR_root
        /\ \A part \in PARTS_, centr \in 0..(N_CENTR_root - 1) :
              LET line == paramFile[part * N_CENTR_root + centr + 1]
              IN  line = << part, centr, Format(outParams[part][centr][0]),
                            Format(outParams[part][centr][1]),
                            Format(outParamsErr[part][centr][1]),
                            Format(outParams[part][centr][2]),
                            Format(outParamsErr[part][centr][2]) >>
        /\ rdPar # ZeroPar(ioVersion) =>
              \A part \in PARTS_, centr \in 0..(N_CENTR_root - 1) :
                  /\ \A k \in 0..2 :
                        Format(rdPar[part][centr][k]) = Format(outParams[part][centr][k])
                  /\ \A k \in 1..2 :
                        Format(rdParErr[part][centr][k])
                            = Format(outParamsErr[part][centr][k])

\* the file of a fit whose values carry a seventh digit was written and read
\* back: the last cell holds the rounded beta error
C5_Witness ==
    /\ ioVersion = "root"
    /\ paramFile # <<>>
    /\ outParams[5][5][2] % 10 # 0
    /\ rdPar[5][5][2] = Format(outParams[5][5][2])
    /\ rdPar[5][5][2] # outParams[5][5][2]
    /\ rdParErr[2][3][1] = Format(outParamsErr[2][3][1])

\* C6: on a file written by WriteParams, ReadParams(part, centr, par) returns
\* the constant, T and beta of the record whose indices are (part, centr), and
\* par[3] = masses[part].
C6_SingleCellReadsOwnRecord ==
    rdCell # NoCall =>
        LET rec == RecordOf(paramFile, rdCell.part, rdCell.centr)
        IN  /\ HasRecord(paramFile, rdCell.part, rdCell.centr)
            /\ rdCell.par = << Parse(rec[3]), Parse(rec[4]), Parse(rec[6]),
                               masses[rdCell.part] >>

\* C8: on a file written by WriteParams of the headers version, ReadParam(parN)
\* and ReadParams agree for parN in {1, 2} on every written (part, centr).
C8_PositionalAgreesWithIndexed ==
    (ioVersion = "headers" /\ rdParam # NoCall /\ rdParam.parN \in {1, 2}) =>
        LET r == ReadParams(ioVersion, systN, paramFile,
                            ZeroPar(ioVersion), ZeroPar(ioVersion))
        IN  \A part \in PARTS_, j \in 0..(N_CENTR_SYST[systN] - 1) :
                LET centr == CENTR_SYST[systN][j]
                IN  /\ rdParam.par[part][centr] = r.par[part][centr][rdParam.parN]
                    /\ rdParam.err[part][centr] = r.err[part][centr][rdParam.parN]

\* both readers ran on the file of the four-centrality system: the positional
\* one filled beta of the last cell with the token of the last line
C8_Witness ==
    /\ ioVersion = "headers"
    /\ systN = 1
    /\ rdParam # NoCall
    /\ rdParam.parN = 2
    /\ rdPar[5][3][2] = rdParam.par[5][3]
    /\ rdParam.par[5][3] = paramFile[Len(paramFile)][6]
    /\ rdParam.err[0][1] = paramFile[2][7]
    /\ rdParam.par[5][3] # rdParam.par[0][0]

----------------------------------------------------------------------------
(* Claims about the global-fit parameter file *)

\* the file holds the block of charge 0 followed by the block of charge 1
WrittenBoth == gWritten = << 0, 1 >>

\* the cells of paramsGlobal that belong to the system
SystemCells ==
    {Addr("Global", charge, CENTR_SYST[systN][j], k) :
        charge \in {0, 1}, j \in 0..(N_CENTR_SYST[systN] - 1), k \in 0..4}

\* C7 (as amended): after WriteGlobalParams for charge 0 and then charge 1,
\* ReadGlobalParams, whatever the length of its inner loop, terminates and
\* leaves in every paramsGlobal[charge][centr][k] of the system the written
\* value rounded to the six significant digits of its token.
C7_RoundTripToTokens ==
    /\ []((WrittenBoth /\ rdPc = "done") =>
             \A a \in SystemCells : rdGlobal[a] = Parse(Format(paramsGlobal[a])))
    /\ ((WrittenBoth /\ rdPc = "reading") ~> (rdPc = "done"))

\* C7 (as stated): the same with every value restored exactly.
C7_RoundTripExact ==
    /\ []((WrittenBoth /\ rdPc = "done") =>
             \A a \in SystemCells : rdGlobal[a] = paramsGlobal[a])
    /\ ((WrittenBoth /\ rdPc = "reading") ~> (rdPc = "done"))

\* the twelve-centrality file was read by the reader whose inner loop makes
\* four passes: the last cell of charge 1 holds its rounded value, which is
\* not the value written
C7_Witness ==
    /\ WrittenBoth
    /\ systN = 0
    /\ rdPc = "done"
    /\ rdReader = [ver |-> "headers", systN |-> 1]
    /\ rdPos = 24
    /\ rdGlobal[Addr("Global", 1, 11, 4)] = Format(paramsGlobal[Addr("Global", 1, 11, 4)])
    /\ rdGlobal[Addr("Global", 1, 11, 4)] # paramsGlobal[Addr("Global", 1, 11, 4)]

----------------------------------------------------------------------------
(* Claims about BlastWaveFit::Fit *)

\* C10: in Fit(0) and Fit(1) a cell whose starting constant read from the
\* file is 0 is skipped: no fit for it, outParams and outParamsErr of the
\* cell stay as they were, and the loop goes through every later cell in
\* the order particle, then centrality; cells with another constant are
\* fitted and copied.
C10_ZeroConstantSkipped ==
    bwVersion \in FIT_VERSIONS =>
        LET n == FitLoopN(bwVersion, systN)
        IN  /\ \A i \in 1..Len(fitLog) :
                  LET e == fitLog[i]
                  IN  /\ e.part = (i - 1) \div n
                      /\ e.centr = FitLoopCentr(bwVersion, systN, (i - 1) % n)
                      /\ (initParamsType \in {0, 1} /\ e.start = 0) =>
                            /\ ~e.fitted
                            /\ outParams[e.part][e.centr] = [k \in 0..3 |-> Uninit]
                            /\ outParamsErr[e.part][e.centr] = [k \in 0..3 |-> Uninit]
                      /\ (initParamsType \in {0, 1} /\ e.start # 0) =>
                            /\ e.fitted
                            /\ outParams[e.part][e.centr] = ToCell(FitOut(e.part, e.centr))
            /\ Len(fitLog) = fitCur
            /\ bwPc # "fit" => Len(fitLog) = N_PARTS * n

\* Fit(0) of the headers version went through all cells: the two cells of
\* particle 2 with a zero constant were skipped, the cell after them fitted
C10_Witness ==
    /\ bwVersion = "headers"
    /\ initParamsType = 0
    /\ bwPc = "fitted"
    /\ \E i \in 1..(Len(fitLog) - 2) :
          /\ fitLog[i].start = 0 /\ ~fitLog[i].copied
          /\ fitLog[i + 1].start = 0
          /\ fitLog[i + 2].fitted
          /\ fitLog[i].part = 2
          /\ outParams[2][fitLog[i].centr][0] = Uninit
          /\ outParams[2][fitLog[i + 2].centr][0] # Uninit

----------------------------------------------------------------------------
(* Claims about the contour plots *)

\* number of sigma levels of the run
RunSigma == IF bwVersion = "headers" THEN N_SIGMA_input ELSE N_SIGMA_root

----------------------------------------------------------------------------
(* SetSpectra of def.h and of input/def.h: the loops over the six species   *)
(* and the centralities, one cell per step.  Which histograms the file      *)
(* holds is an input; the directories of the species are all there.         *)

SP_VERSIONS == {"root", "input"}

\* N_CENTR of the def.h that defines SetSpectra
SpN_CENTR(ver) == IF ver = "root" THEN N_CENTR_root ELSE N_CENTR_input

\* the cells from which the missing histograms are taken
MissCandidate(ver, k) == << (2 * k - 1) % N_PARTS, (3 * k) % SpN_CENTR(ver) >>

\* fd->Get(name) returns null
HistMissing(miss, i, centr) == <<i, centr>> \in miss

\* the null test of input/def.h; def.h has none
SetSpectra_guarded(ver) == ver = "input"

\* what one pass of the inner loop does with cell (i, centr): "skip" is the
\* continue, "load" builds the graph, "deref" calls GetNbinsX on null
SetSpectra_cell(ver, miss, i, centr) ==
    IF ~HistMissing(miss, i, centr) THEN "load"
    ELSE IF SetSpectra_guarded(ver) THEN "skip"
    ELSE "deref"

InitSpectra ==
    /\ CoreIdle
    /\ spVersion \in SP_VERSIONS
    /\ spType \in {"mt", "pt"}
    /\ spMissing \in SUBSET {MissCandidate(spVersion, k) : k \in 1..MaxMiss}
    /\ spCur = 0
    /\ grSpectra = {}
    /\ spDeref = FALSE
    /\ spPc = "load"
    /\ RgIdle
    /\ DrIdle
    /\ LdIdle
    /\ PlIdle
    /\ AvIdle
    /\ SeIdle
    /\ DpIdle
    /\ SyIdle
    /\ RkIdle
    /\ TbIdle
    /\ LbIdle
    /\ SbIdle

\* one pass of the inner loop of SetSpectra.  Calling a member of a null
\* TH1D is undefined: the session either dies there or goes on with a graph
\* built from whatever the call returned.
SetSpectra_step ==
    /\ spPc = "load"
    /\ LET n == SpN_CENTR(spVersion)
           i == spCur \div n
           centr == spCur % n
           what == SetSpectra_cell(spVersion, spMissing, i, centr)
           last == spCur + 1 >= N_PARTS * n
       IN  \/ /\ what = "load"
              /\ grSpectra' = grSpectra \cup {<<i, centr>>}
              /\ spCur' = spCur + 1
              /\ spPc' = IF last THEN "done" ELSE "load"
              /\ UNCHANGED spDeref
           \/ /\ what = "skip"
              /\ spCur' = spCur + 1
              /\ spPc' = IF last THEN "done" ELSE "load"
              /\ UNCHANGED <<grSpectra, spDeref>>
           \/ /\ what = "deref"
              /\ spDeref' = TRUE
              /\ \/ /\ spPc' = "crashed"
                    /\ UNCHANGED <<grSpectra, spCur>>
                 \/ /\ grSpectra' = grSpectra \cup {<<i, centr>>}
                    /\ spCur' = spCur + 1
                    /\ spPc' = IF last THEN "done" ELSE "load"
    /\ UNCHANGED <<coreVars, spVersion, spType, spMissing, rgVars, drVars, ldVars, plVars, avVars, seVars, dpVars, syVars, rkVars, tbVars, lbVars, sbVars>>

NextSpectra == SetSpectra_step

SpecSpectra == InitSpectra /\ [][NextSpectra]_vars

\* the cells of the loops of SetSpectra
SpectraCells == {<<i, centr>> : i \in PARTS_, centr \in 0..(SpN_CENTR(spVersion) - 1)}

\* C11: a histogram missing from the input file is skipped without being
\* dereferenced: grSpectra of its cell stays unset, and when SetSpectra is
\* through every other cell of every species is loaded.
C11_MissingHistogramSkipped ==
    /\ ~spDeref
    /\ spPc # "crashed"
    /\ grSpectra \cap spMissing = {}
    /\ spPc = "done" => grSpectra = SpectraCells \ spMissing

----------------------------------------------------------------------------
(* Claims about the fits and contours of the headers BlastWaveFit *)

\* gMinuit = new TMinuit(5) stands before the loops of the headers Fit
Fit_gMinuit(ver) == ver = "headers"

\* C12: after Fit(0) of the headers version a contour is not null only for
\* s >= 1, with isContour set, a valid fit of its cell, gMinuit set and the
\* uncertainties of T and beta not below 1e-10; an invalid fit prints its
\* line, gives the cell no contour, is made once, and the loop goes on
\* through all later cells.
C12_ContourOnlyAfterValidFit ==
    (bwVersion = "headers" /\ initParamsType = 0) =>
        /\ \A t \in contour :
              /\ t[3] >= 1
              /\ isContour
              /\ Fit_gMinuit(bwVersion)
              /\ \E i \in 1..Len(fitLog) :
                    /\ fitLog[i].part = t[1] /\ fitLog[i].centr = t[2]
                    /\ fitLog[i].fitted /\ fitLog[i].valid /\ ~fitLog[i].tiny
        /\ \A i \in 1..Len(fitLog) :
              (fitLog[i].fitted /\ ~fitLog[i].valid) =>
                  /\ fitLog[i].failed
                  /\ \A l \in 0..(N_SIGMA_input - 1) :
                        <<fitLog[i].part, fitLog[i].centr, l>> \notin contour
                  /\ \A j \in 1..Len(fitLog) :
                        (fitLog[j].part = fitLog[i].part /\ fitLog[j].centr = fitLog[i].centr)
                            => j = i
        /\ bwPc # "fit" => Len(fitLog) = N_PARTS * N_CENTR_SYST[systN]

\* Fit(0) with isContour is through: cell (0, 0) had an invalid fit and no
\* contour, cell (1, 0) a valid fit with tiny uncertainties and no contour,
\* the later cell (2, 0) has contours
C12_Witness ==
    /\ bwVersion = "headers"
    /\ initParamsType = 0
    /\ isContour
    /\ bwPc = "fitted"
    /\ \E i \in 1..Len(fitLog) :
          fitLog[i].part = 0 /\ fitLog[i].centr = 0 /\ fitLog[i].failed
    /\ \E i \in 1..Len(fitLog) :
          fitLog[i].part = 1 /\ fitLog[i].centr = 0 /\ fitLog[i].tiny
    /\ Levels(contour, N_SIGMA_input, 1, 0) = {}
    /\ <<2, 0, 2>> \in contour

----------------------------------------------------------------------------
(* ReadGlobalParams on any file: well-formed, empty, truncated, missing, or *)
(* with a token that operator>> cannot convert (a 'nan' printed by the      *)
(* writer, a word).  A failed conversion stores zero in its operand and     *)
(* sets failbit; after that every extraction is a no-op and eofbit is never *)
(* set.                                                                     *)

\* a token that is not a number
NaT == -7

\* the file both WriteGlobalParams calls of a global-fit macro leave
WrittenGlobalFile(s) ==
    WriteGlobalParams(TRUE,
        WriteGlobalParams(FALSE, [exists |-> FALSE, lines |-> <<>>],
                          FilledGlobal(0, s), 0, s),
        FilledGlobal(0, s), 1, s)

\* the written file without its last cut lines
TruncatedFile(s, cut) ==
    LET f == WrittenGlobalFile(s)
    IN  [exists |-> TRUE, lines |-> SubSeq(f.lines, 1, Len(f.lines) - cut)]

\* the written file with field fld of its line ln replaced by a word
BadTokenFile(s, ln, fld) ==
    LET f == WrittenGlobalFile(s)
    IN  [exists |-> TRUE,
         lines |-> [f.lines EXCEPT ![ln] = [f.lines[ln] EXCEPT ![fld] = NaT]]]

\* lines that get the bad token: the first, and one of the second block
BadLine(s, b) == IF b = 1 THEN 1 ELSE N_CENTR_SYST[s] + b

\* the files ReadGlobalParams is run on, for a writer of system s
InputFiles(s) ==
    {[exists |-> FALSE, lines |-> <<>>], [exists |-> TRUE, lines |-> <<>>],
     WrittenGlobalFile(s)}
        \cup {TruncatedFile(s, cut) : cut \in 1..MaxCut}
        \cup {BadTokenFile(s, BadLine(s, b), fld) : b \in 1..MaxBad, fld \in 1..7}

\* the four ReadGlobalParams: input/headers (inner loop over the centralities
\* of systN), input (over CENTR, 12), and those of WriteReadFiles.h and
\* ReadFiles.h (over CENTR, 6)
AllReaders == Readers \cup {[ver |-> "root", systN |-> 0], [ver |-> "ReadFiles", systN |-> 0]}

\* passes of the inner loop in one round of while (true)
ReadGlobalParams_innerAll(rd) ==
    IF rd.ver \in {"root", "ReadFiles"} THEN N_CENTR_root ELSE ReadGlobalParams_inner(rd)

\* index of the first record after pos that holds a bad token, 0 if none
FirstBad(recs, pos) ==
    LET bad == {i \in (pos + 1)..Len(recs) : \E f \in 1..7 : recs[i][f] = NaT}
    IN  IF bad = {} THEN 0 ELSE CHOOSE i \in bad : \A j \in bad : i <= j

\* the field of the bad token of a record
BadField(rec) == CHOOSE f \in 1..7 : rec[f] = NaT

\* the pass that meets the bad token in field f of rec: the fields before it
\* are extracted and stored, the failing extraction stores zero in its
\* operand, the rest of the chain does nothing
ReadGlobalParams_badPass(rec, f, mem) ==
    IF f < 3 THEN mem
    ELSE LET base == Addr("Global", rec[1], rec[2], 0)
         IN  [a \in DOMAIN mem |->
                 IF a >= base /\ a < base + (f - 3) THEN Parse(rec[3 + (a - base)])
                 ELSE IF a = base + (f - 3) THEN 0
                 ELSE mem[a]]

\* state of the stream after a round of n passes from pos: "fail" (failbit
\* without eofbit: file not opened, or conversion failed), "eof", or "good"
ReadGlobalParams_status(exists, recs, pos, n) ==
    IF ~exists THEN "fail"
    ELSE IF FirstBad(recs, pos) # 0 /\ FirstBad(recs, pos) <= pos + n THEN "fail"
    ELSE IF pos + n > Len(recs) THEN "eof"
    ELSE "good"

InitGlobalRead ==
    /\ prog = "Global"
    /\ systN \in SYSTS
    /\ chiCharge = 0
    /\ chiPar = NoCall
    /\ ChiIdle
    /\ grN = [s \in 0..5 |-> 1]
    /\ FitIdle
    /\ paramsGlobal = FilledGlobal(0, systN)
    /\ fitResults = <<>>
    /\ IoIdle
    /\ isParamsFileExist = FALSE
    /\ gFile \in InputFiles(systN)
    /\ gWritten = <<>>
    /\ rdReader = NoCall
    /\ rdGlobal = [a \in 0..(MemSize("Global") - 1) |-> 0]
    /\ rdPos = 0
    /\ rdPc = "idle"
    /\ BwIdle
    /\ ConIdle
    /\ SpIdle
    /\ rdFail = FALSE
    /\ rdBadStore = FALSE
    /\ DrIdle
    /\ LdIdle
    /\ PlIdle
    /\ AvIdle
    /\ SeIdle
    /\ DpIdle
    /\ SyIdle
    /\ RkIdle
    /\ TbIdle
    /\ LbIdle
    /\ SbIdle

\* ReadGlobalParams is entered: txtFile.open(filename).  The readers built
\* with N_CENTR = 6 are run on files of the 4-centrality system only.
ReadGlobalParams_enter ==
    /\ rdPc = "idle"
    /\ \E rd \in AllReaders :
          /\ rd.ver \in {"root", "ReadFiles"} => systN = 1
          /\ rdReader' = rd
    /\ rdPos' = 0
    /\ rdPc' = "reading"
    /\ rdFail' = ~gFile.exists
    /\ UNCHANGED <<prog, systN, chiVars, fitVars, ioVars,
                   isParamsFileExist, gFile, gWritten, rdGlobal, bwVars, conVars,
                   spVars, rdBadStore, drVars, ldVars, plVars, avVars, seVars, dpVars, syVars, rkVars, tbVars, lbVars, sbVars>>

\* one round of while (true) { inner loop; if (txtFile.eof()) break; }
ReadGlobalParams_anyRound ==
    /\ rdPc = "reading"
    /\ LET recs == Records(gFile.lines)
           n == ReadGlobalParams_innerAll(rdReader)
           fb == FirstBad(recs, rdPos)
           st == IF rdFail THEN "fail"
                 ELSE ReadGlobalParams_status(gFile.exists, recs, rdPos, n)
       IN  IF rdFail
           THEN UNCHANGED <<rdGlobal, rdPos, rdPc, rdFail, rdBadStore>>
           ELSE /\ rdGlobal' =
                     IF st = "fail"
                     THEN ReadGlobalParams_badPass(recs[fb], BadField(recs[fb]),
                              ReadGlobalParams_round(SubSeq(recs, 1, fb - 1), rdPos, n, rdGlobal))
                     ELSE ReadGlobalParams_round(recs, rdPos, n, rdGlobal)
                /\ rdBadStore' = (st = "fail" /\ BadField(recs[fb]) >= 3)
                /\ rdFail' = (st = "fail")
                /\ rdPos' = CASE st = "fail" -> fb - 1
                              [] st = "eof" -> Len(recs)
                              [] OTHER -> rdPos + n
                /\ rdPc' = IF st = "eof" THEN "done" ELSE "reading"
    /\ UNCHANGED <<prog, systN, chiVars, fitVars, ioVars,
                   isParamsFileExist, gFile, gWritten, rdReader, bwVars, conVars,
                   spVars, drVars, ldVars, plVars, avVars, seVars, dpVars, syVars, rkVars, tbVars, lbVars, sbVars>>

NextGlobalRead ==
    \/ ReadGlobalParams_enter
    \/ ReadGlobalParams_anyRound

\* a running ReadGlobalParams keeps executing its loop
SpecGlobalRead ==
    InitGlobalRead /\ [][NextGlobalRead]_vars /\ WF_vars(ReadGlobalParams_anyRound)

\* C13: ReadGlobalParams terminates on every input (well-formed, empty,
\* truncated, missing, with a token that is not a number), and a failed read
\* never stores into paramsGlobal.
C13_TerminatesOnEveryInput ==
    /\ [](~rdBadStore)
    /\ (rdPc = "reading") ~> (rdPc = "done")

----------------------------------------------------------------------------
(* What the fit drivers hand to the fitter: initial values, limits, fixed   *)
(* parameters, minimizer.  Values are in units of 1e-4: T = 0.09 is 900, a  *)
(* constant of 10000 is 100000000.                                          *)

\* v * (num / den)
Scale(v, num, den) == (v * num) \div den

\* input/def.h
handT == [c \in 0..11 |->
    <<1320000, 1078000, 1098000, 1133000, 1165000, 1230000,
      1320000, 1420000, 1530000, 1630000, 1680000, 1790000>>[c + 1]]

handBeta == [c \in 0..11 |->
    <<7100, 7730, 7690, 7630, 7540, 7380, 7100, 6700, 6140, 5550, 4970, 3990>>[c + 1]]

handConst == [part \in 0..5 |-> [c \in 0..11 |-> 100000000]]

con_input == [part \in 0..5 |-> 100000000]

conmin_input == [part \in 0..5 |-> 0]

conmax_input == [part \in 0..5 |-> 300000000]

\* def.h
con_root == [part \in 0..5 |-> <<100000, 100000, 10000, 10000, 1000, 10>>[part + 1]]

conmin_root == [part \in 0..5 |-> 0]

conmax_root == [part \in 0..5 |->
    <<5000000, 5000000, 500000, 500000, 50000000, 500000>>[part + 1]]

conminGlobal_root == [part \in 0..5 |-> 0]

conmaxGlobal_root == [part \in 0..5 |->
    <<5000000, 5000000, 1000000, 1000000, 50000000, 1000000>>[part + 1]]

\* one call SetLimits(lo, hi) on parameter p, or SetParLimits(p, lo, hi)
Lim(p, lo, hi) == [p |-> p, lo |-> lo, hi |-> hi]

\* par0 of GlobalFitCentr
GlobalPar0(pr, centr, charge) ==
    CASE pr = "Global" ->
            << handT[centr], handBeta[centr], handConst[0 + charge][centr],
               handConst[2 + charge][centr], handConst[4 + charge][centr] >>
      [] pr = "Global_all" ->
            << handT[centr], handBeta[centr] >> \o [i \in 1..6 |-> handConst[i - 1][centr]]
      [] pr = "AllParts" ->
            << 1000, 7000 >> \o [i \in 1..6 |-> con_root[i - 1]]

\* the SetLimits calls of GlobalFitCentr of BlastWaveGlobal.C, in order
GlobalLimits_Global(centr, charge) ==
    LET hc(i) == handConst[2 * i + charge][centr]
    IN  IF centr < 10 THEN
            << Lim(0, 800, 1800), Lim(1, 3000, 8000),
               Lim(2, Scale(hc(0), 0, 1), Scale(hc(0), 3, 1)),
               Lim(3, Scale(hc(1), 0, 1), Scale(hc(1), 3, 1)),
               Lim(4, Scale(hc(2), 0, 1), Scale(hc(2), 3, 1)) >>
        ELSE IF centr < 11 THEN
            << Lim(0, 1650, 2000), Lim(1, 3000, 5500),
               Lim(2, Scale(hc(0), 0, 1), Scale(hc(0), 2, 10000)),
               Lim(3, Scale(hc(1), 0, 1), Scale(hc(1), 1, 10)),
               Lim(4, Scale(hc(2), 0, 1), Scale(hc(2), 3, 10000)) >>
        ELSE IF centr < 12 THEN
            << Lim(0, 1650, 2000), Lim(1, 3000, 4100),
               Lim(2, Scale(hc(0), 0, 1), Scale(hc(0), 1, 10000)),
               Lim(3, Scale(hc(1), 0, 1), Scale(hc(1), 1, 10)),
               Lim(4, Scale(hc(2), 5, 100000), Scale(hc(2), 9, 100000)) >>
        ELSE << >>

\* the SetLimits calls of GlobalFitCentr of BlastWaveGlobal_all.C, in order
GlobalLimits_all(centr) ==
    LET cons(num, den) == [i \in 1..6 |-> Lim(i + 1, 0, Scale(handConst[i - 1][centr], num, den))]
    IN  IF centr < 10 THEN << Lim(0, 800, 1800), Lim(1, 3000, 8000) >> \o cons(3, 1)
        ELSE IF centr < 11 THEN << Lim(0, 1650, 2000), Lim(1, 3000, 5500) >> \o cons(9, 10000)
        ELSE IF centr < 12 THEN << Lim(0, 1650, 2000), Lim(1, 3000, 4100) >> \o cons(3, 10000)
        ELSE << >>

\* the SetLimits calls of GlobalFitCentr of BlastWaveGlobalAllParts.C
GlobalLimits_AllParts ==
    << Lim(0, 800, 2000), Lim(1, 5000, 9500) >>
        \o [i \in 1..6 |-> Lim(i + 1, conminGlobal_root[i - 1], conmaxGlobal_root[i - 1])]

GlobalLimits(pr, centr, charge) ==
    CASE pr = "Global" -> GlobalLimits_Global(centr, charge)
      [] pr = "Global_all" -> GlobalLimits_all(centr)
      [] pr = "AllParts" -> GlobalLimits_AllParts

----------------------------------------------------------------------------
(* GlobalFitCentr as a sequence of calls on its ROOT::Fit::Fitter           *)

ALL_SYSTS == 0..4

\* the calls the macro's main loop makes, in order: <<centr, charge>>
DriverCalls(pr, s) ==
    IF pr = "AllParts" THEN [n \in 1..N_CENTR_root |-> << n - 1, 0 >>]
    ELSE [n \in 1..(2 * N_CENTR_SYST[s]) |->
             << CENTR_SYST[s][(n - 1) \div 2], (n - 1) % 2 >>]

\* fitter.Config() after SetParamsSettings(Npar, par0) and the SetLimits calls
FitterConfig(pr, centr, charge) ==
    [ init      |-> GlobalPar0(pr, centr, charge),
      limits    |-> GlobalLimits(pr, centr, charge),
      fixed     |-> {},
      minimizer |-> << "default", "default" >>,
      passes    |-> << >>,
      result    |-> 0 ]

\* the calls that follow the limits in BlastWaveGlobal_all.C, Genetic set last
GlobalFitCentr_ops_all_geneticLast ==
    << << "Fix", 0 >>, << "Fix", 1 >>, << "SetMinimizer", "Minuit2", "Migrad" >>,
       << "FitFCN" >>,
       << "Release", 0 >>, << "Release", 1 >>,
       << "SetMinimizer", "Minuit2", "Migrad" >>, << "SetMinimizer", "Genetic", "" >>,
       << "FitFCN" >> >>

\* the calls that follow the limits in BlastWaveGlobal_all.C
GlobalFitCentr_ops_all ==
    << << "Fix", 0 >>, << "Fix", 1 >>, << "SetMinimizer", "Minuit2", "Migrad" >>,
       << "FitFCN" >>,
       << "Release", 0 >>, << "Release", 1 >>,
       << "SetMinimizer", "Genetic", "" >>, << "SetMinimizer", "Minuit2", "Migrad" >>,
       << "FitFCN" >> >>

\* the calls that follow the limits in BlastWaveGlobal.C
GlobalFitCentr_ops_Global ==
    << << "Release", 0 >>, << "Release", 1 >>,
       << "SetMinimizer", "Genetic", "" >>, << "SetMinimizer", "Minuit2", "Migrad" >>,
       << "FitFCN" >> >>

\* the calls that follow the limits in BlastWaveGlobalAllParts.C
GlobalFitCentr_ops_AllParts ==
    << << "SetMinimizer", "Minuit2", "Migrad" >>, << "FitFCN" >> >>

GlobalFitCentr_ops(pr) ==
    CASE pr = "Global" -> GlobalFitCentr_ops_Global
      [] pr = "Global_all" -> GlobalFitCentr_ops_all
      [] pr = "AllParts" -> GlobalFitCentr_ops_AllParts

\* one call on the fitter: Fix / Release change the fixed set; SetMinimizer
\* sets the type, and the algorithm only when one is given; FitFCN minimizes
\* with the configuration as it is now and replaces the fitter's result
FitterOp(st, op) ==
    CASE op[1] = "Fix" -> [st EXCEPT !.fixed = @ \cup {op[2]}]
      [] op[1] = "Release" -> [st EXCEPT !.fixed = @ \ {op[2]}]
      [] op[1] = "SetMinimizer" ->
            [st EXCEPT !.minimizer = << op[2], IF op[3] = "" THEN @[2] ELSE op[3] >>]
      [] op[1] = "FitFCN" ->
            [st EXCEPT !.passes = Append(@, [fixed |-> st.fixed, minimizer |-> st.minimizer]),
                       !.result = Len(st.passes) + 1]

RECURSIVE ApplyOps(_, _)
ApplyOps(ops, st) ==
    IF ops = << >> THEN st ELSE ApplyOps(Tail(ops), FitterOp(st, Head(ops)))

GLOBAL_RUNS ==
    { [prog |-> pr, ver |-> "", systN |-> s, type |-> -1, prof |-> 0] :
        pr \in {"Global", "Global_all"}, s \in ALL_SYSTS }
    \cup { [prog |-> "AllParts", ver |-> "", systN |-> 0, type |-> -1, prof |-> 0] }

\* GlobalFitCentr(centr, charge) of the run's macro, the next call of its loop:
\* configures the fitter, minimizes, stores fitter.Result()
GlobalFitCentr_run ==
    /\ drPc = "run"
    /\ drRun.prog \in PROGS
    /\ drCur < Len(DriverCalls(drRun.prog, drRun.systN))
    /\ LET call == DriverCalls(drRun.prog, drRun.systN)[drCur + 1]
           st   == ApplyOps(GlobalFitCentr_ops(drRun.prog),
                            FitterConfig(drRun.prog, call[1], call[2]))
       IN  /\ fitter' = [part |-> -1, centr |-> call[1], charge |-> call[2],
                         init |-> st.init, limits |-> st.limits, fixed |-> st.fixed,
                         minimizer |-> st.minimizer]
           /\ drPasses' = st.passes
           /\ drStored' = st.result
    /\ drCur' = drCur + 1
    /\ drPc' = IF drCur + 1 = Len(DriverCalls(drRun.prog, drRun.systN)) THEN "done" ELSE "run"
    /\ UNCHANGED <<coreVars, spVars, rgVars, drRun, rLimitMult, ldVars, plVars, avVars, seVars, dpVars, syVars, rkVars, tbVars, lbVars, sbVars>>

----------------------------------------------------------------------------
(* BlastWaveFit::Fit: the initial values and limits of one cell             *)

\* what getGlobalParams / ReadParams hand to Fit for a cell, as <<constant, T,
\* beta>>: the values of the parameter files of the run
ProfPar(k, part, centr) ==
    << IF k = 2 /\ part = 5 /\ centr = 0 THEN 0
       ELSE IF k % 2 = 1 THEN 200000 ELSE 5000,
       1000 + 100 * k,
       7800 - 2300 * (k - 1) >>

Min2(a, b) == IF a < b THEN a ELSE b

\* rLimitMult as a fraction <<num, den>>; v * rLimitMult
TimesMult(v, m) == (v * m[1]) \div m[2]

\* if (v * rLimitMult > 0.95) rLimitMult = 0.95 / v
CapMult(v, m) == IF v * m[1] > 9500 * m[2] THEN << 9500, v >> ELSE m

\* con / conmin / conmax of the def.h each BlastWaveFit.h is built with
con(ver) == IF ver = "root" THEN con_root ELSE con_input

conmin(ver) == IF ver = "root" THEN conmin_root ELSE conmin_input

conmax(ver) == IF ver = "root" THEN conmax_root ELSE conmax_input

\* the parameters handed to SetParameters, by case; << >> when the cell is
\* left by continue before that
Fit_init(ver, type, k, part, centr) ==
    LET v == ProfPar(k, part, centr)
    IN  CASE type = 0 ->
                IF v[1] = 0 THEN << >>
                ELSE IF ver = "root" THEN << v[1], v[2], Min2(Min2(v[3], 8000), 6000) >>
                ELSE IF ver = "input" THEN << v[1], v[2], Min2(v[3], 9000) >>
                ELSE v
          [] type = 1 -> IF v[1] = 0 THEN << >> ELSE v
          [] type = 2 -> << con(ver)[part], 900, 7500 >>
          [] type = 3 -> << handConst[part][centr], handT[centr], handBeta[centr] >>
          [] type = 4 -> << v[1], v[2], Min2(v[3], 9500) >>

\* case 0, every version: the SetParLimits calls in order
Fit_limits_case0(ver, s, v, part) ==
    CASE ver = "root" ->
            << Lim(0, Scale(v[1], 6, 10), Scale(v[1], 13, 10)),
               Lim(1, Scale(v[2], 6, 10), Scale(v[2], 13, 10)),
               Lim(2, Scale(v[3], 6, 10), Scale(v[3], 13, 10)) >>
            \o (IF part <= 1 THEN << Lim(2, Scale(v[3], 5, 10), v[3]) >> ELSE << >>)
      [] ver = "input" ->
            << Lim(0, Scale(v[1], 5, 10), Scale(v[1], 15, 10)),
               Lim(1, Scale(v[2], 5, 10), Scale(v[2], 15, 10)),
               Lim(2, Scale(v[3], 5, 10), Scale(v[3], 15, 10)) >>
            \o (IF part <= 1 THEN << Lim(2, Scale(v[3], 5, 10), Scale(v[3], 15, 10)) >>
                ELSE << >>)
      [] ver = "headers" ->
            IF s = 0 THEN << Lim(0, Scale(v[1], 0, 1), Scale(v[1], 1000, 1)) >>
            ELSE IF s \in {1, 2} THEN
                << Lim(1, Scale(v[2], 109, 100), Scale(v[2], 13, 10)),
                   Lim(2, Scale(v[3], 109, 100), Scale(v[3], 13, 10)),
                   Lim(0, Scale(v[1], 0, 1), Scale(v[1], 300, 1)) >>
            ELSE IF s \in {3, 4} THEN
                << Lim(1, Scale(v[2], 99, 100), Scale(v[2], 13, 10)),
                   Lim(2, Scale(v[3], 99, 100), Scale(v[3], 13, 10)),
                   Lim(0, Scale(v[1], 0, 1), Scale(v[1], 100, 1)) >>
            ELSE << >>

\* case 2: SetParLimits(1, ...) as each version writes it
Fit_limits_case2(ver, part) ==
    << Lim(0, conmin(ver)[part], conmax(ver)[part]),
       IF ver = "root" THEN Lim(1, 8000, 1000) ELSE Lim(1, 8000, 1400),
       IF ver = "root" THEN Lim(2, 5000, 8000) ELSE Lim(2, 4000, 8000) >>

\* case 4: rLimitMult as it is after parameter par of the cell
Fit_case4_mult(v, m, par) ==
    LET m0 == CapMult(v[1], m)
        m1 == CapMult(v[2], m0)
        m2 == CapMult(v[3], m1)
    IN  << m0, m1, m2 >>[par + 1]

Fit_limits_case4(v, m) ==
    [par \in 1..3 |->
        Lim(par - 1, Scale(v[par], 1, 2), TimesMult(v[par], Fit_case4_mult(v, m, par - 1)))]

\* the SetParLimits calls of the cell
Fit_limits(ver, type, s, v, part, m) ==
    CASE v = << >> -> << >>
      [] type = 0 -> Fit_limits_case0(ver, s, v, part)
      [] type = 1 -> [par \in 1..3 |->
                         Lim(par - 1, Scale(v[par], 6, 10), Scale(v[par], 15, 10))]
      [] type = 2 -> Fit_limits_case2(ver, part)
      [] type = 3 -> << >>
      [] type = 4 -> Fit_limits_case4(v, m)

\* the parameters FixParameter fixes in the cell
Fit_fixed(ver, type, s, v) ==
    CASE v = << >> \/ type = 3 -> {}
      [] type = 0 /\ ver = "headers" /\ s = 0 -> {1, 2, 3}
      [] OTHER -> {3}

\* the cases each BlastWaveFit.h has
FitCases(ver) == IF ver = "root" THEN 0..3 ELSE 0..4

FIT_RUNS ==
    { [prog |-> "Fit", ver |-> r[1], systN |-> r[2], type |-> r[3], prof |-> r[4]] :
        r \in { q \in FIT_VERSIONS \X ALL_SYSTS \X (0..4) \X (0..MaxProf) :
                  /\ q[3] \in FitCases(q[1])
                  /\ q[1] = "root" => q[2] = 0
                  /\ q[4] = 0 <=> q[3] \in {2, 3} } }

\* one pass of the loops of Fit over (part, centr): initial values, limits,
\* fixed parameters, and the fit where the case makes one
Fit_setup_cell ==
    /\ drPc = "run"
    /\ drRun.prog = "Fit"
    /\ drCur < N_PARTS * FitLoopN(drRun.ver, drRun.systN)
    /\ LET n     == FitLoopN(drRun.ver, drRun.systN)
           part  == drCur \div n
           centr == FitLoopCentr(drRun.ver, drRun.systN, drCur % n)
           v     == Fit_init(drRun.ver, drRun.type, drRun.prof, part, centr)
           lims  == Fit_limits(drRun.ver, drRun.type, drRun.systN, v, part, rLimitMult)
           fx    == Fit_fixed(drRun.ver, drRun.type, drRun.systN, v)
           fits  == v # << >> /\ drRun.type # 3
       IN  /\ fitter' = [part |-> part, centr |-> centr, charge |-> -1,
                         init |-> v, limits |-> lims, fixed |-> fx,
                         minimizer |-> << "default", "default" >>]
           /\ drPasses' = IF fits
                          THEN << [fixed |-> fx, minimizer |-> << "default", "default" >>] >>
                          ELSE << >>
           /\ drStored' = IF fits THEN 1 ELSE 0
           /\ rLimitMult' = IF drRun.type = 4 THEN Fit_case4_mult(v, rLimitMult, 2)
                            ELSE rLimitMult
           /\ drCur' = drCur + 1
           /\ drPc' = IF drCur + 1 = N_PARTS * n THEN "done" ELSE "run"
    /\ UNCHANGED <<coreVars, spVars, rgVars, drRun, ldVars, plVars, avVars, seVars, dpVars, syVars, rkVars, tbVars, lbVars, sbVars>>

InitDrivers ==
    /\ CoreIdle
    /\ SpIdle
    /\ RgIdle
    /\ drRun \in GLOBAL_RUNS \cup FIT_RUNS
    /\ drCur = 0
    /\ drPc = "run"
    /\ fitter = << >>
    /\ drPasses = << >>
    /\ drStored = 0
    /\ rLimitMult = << 3, 2 >>
    /\ LdIdle
    /\ PlIdle
    /\ AvIdle
    /\ SeIdle
    /\ DpIdle
    /\ SyIdle
    /\ RkIdle
    /\ TbIdle
    /\ LbIdle
    /\ SbIdle

NextDrivers ==
    \/ GlobalFitCentr_run
    \/ Fit_setup_cell

SpecDrivers == InitDrivers /\ [][NextDrivers]_vars

\* the last limits set for parameter p in the current call or cell
EffLimit(p) ==
    LET idx == {i \in DOMAIN fitter.limits : fitter.limits[i].p = p}
    IN  fitter.limits[CHOOSE i \in idx : \A j \in idx : j <= i]

Limited == {fitter.limits[i].p : i \in DOMAIN fitter.limits}

\* the parameters free in some minimization of the current call or cell
FreeInSomePass ==
    {p \in 0..(Len(fitter.init) - 1) : \E i \in DOMAIN drPasses : p \notin drPasses[i].fixed}

\* C14: in BlastWaveGlobal_all.C every GlobalFitCentr runs exactly two
\* minimizations, the first with T and beta fixed and the six constants free,
\* the second with T and beta released, both with Minuit2/Migrad, and what is
\* stored is the result of the second
C14_TwoPassesMigradSecondStored ==
    (drRun # << >> /\ drRun.prog = "Global_all" /\ drCur > 0) =>
        /\ Len(drPasses) = 2
        /\ drPasses[1].fixed = {0, 1}
        /\ drPasses[2].fixed = {}
        /\ drPasses[1].minimizer = << "Minuit2", "Migrad" >>
        /\ drPasses[2].minimizer = << "Minuit2", "Migrad" >>
        /\ drStored = 2

C14_Witness ==
    /\ drRun # << >>
    /\ drRun.prog = "Global_all"
    /\ drRun.systN = 0
    /\ drPc = "done"
    /\ fitter.centr = 11
    /\ fitter.charge = 1
    /\ Len(drPasses) = 2
    /\ drStored = 2

\* C15: every limit pair handed to the fitter has lo <= hi
C15_LimitsWellFormed ==
    (drRun # << >> /\ drCur > 0) =>
        \A i \in DOMAIN fitter.limits : fitter.limits[i].lo <= fitter.limits[i].hi

\* C16: when the fitter is invoked, the initial value of every limited
\* parameter that is free lies inside its limits
C16_InitialInsideLimits ==
    (drRun # << >> /\ drCur > 0) =>
        \A p \in Limited \cap FreeInSomePass :
            /\ EffLimit(p).lo <= fitter.init[p + 1]
            /\ fitter.init[p + 1] <= EffLimit(p).hi

----------------------------------------------------------------------------
(* The text-file spectrum loaders ReadFromFile and ReadFromFileAuAu.        *)
(* Momenta and masses are in MeV, the constant x_e = 0.05 is 5.             *)

Ncentr == [s \in 0..4 |-> <<12, 4, 5, 5, 4>>[s + 1]]

X_E == 5

massMeV(part) == masses[part] \div 100000

ISqrt(n) == CHOOSE r \in 0..4000 : r * r <= n /\ (r + 1) * (r + 1) > n

\* sqrt(pT * pT + m * m) - m
MtOf(pT, part) == ISqrt(pT * pT + massMeV(part) * massMeV(part)) - massMeV(part)

\* what the measurement files hold for point i (from 0) of (part, centr)
PtVal(i) == 500 * (i + 1)

YieldVal(seed, part, centr, i) == 1000 + 100 * part + 10 * centr + 3 * i + seed

StatVal(seed, part, centr, i) == 1 + ((part + centr + i + seed) % 3)

SysVal(seed, part, centr, i) == 7 + ((part + centr + i + seed) % 2)

\* Spectra_particle_<part>_<part>.txt of system s: N, then for every
\* centrality N lines "pT  yield  stat  sys"
SpectraFile(part, s, n, seed) ==
    [t \in 1..(1 + Ncentr[s] * n * 4) |->
        IF t = 1 THEN n
        ELSE LET rec   == (t - 2) \div 4
                 fld   == (t - 2) % 4
                 centr == rec \div n
                 i     == rec % n
             IN  CASE fld = 0 -> PtVal(i)
                   [] fld = 1 -> YieldVal(seed, part, centr, i)
                   [] fld = 2 -> StatVal(seed, part, centr, i)
                   [] fld = 3 -> SysVal(seed, part, centr, i)]

\* AuAu/spectra.txt: for every particle N, then N lines "pT  (yield stat) x 12"
AuAuFile(n, seed) ==
    LET blk == 1 + n * (1 + 2 * Ncentr[0])
    IN  [t \in 1..(6 * blk) |->
            LET part == (t - 1) \div blk
                r    == (t - 1) % blk
            IN  IF r = 0 THEN n
                ELSE LET i == (r - 1) \div (1 + 2 * Ncentr[0])
                         f == (r - 1) % (1 + 2 * Ncentr[0])
                     IN  IF f = 0 THEN PtVal(i)
                         ELSE IF (f - 1) % 2 = 0
                              THEN YieldVal(seed, part, (f - 1) \div 2, i)
                              ELSE StatVal(seed, part, (f - 1) \div 2, i)]

\* new TGraphErrors(n, x, y, ex, ey): point i of the graph
TGraphErrors(n, x, y, ex, ey) ==
    [i \in 1..n |-> [x |-> x[i], y |-> y[i], ex |-> ex[i], ey |-> ey[i]]]

\* the graphs one ReadFromFile(part, systN) stores, by cell
ReadFromFile(file, part, s) ==
    LET N == file[1]
        tok(centr, i, k) == file[1 + (centr * N + (i - 1)) * 4 + k + 1]
        x_e == [i \in 1..N |-> X_E]
    IN  [c \in {part} \X (0..(Ncentr[s] - 1)) |->
            LET centr == c[2]
                mT  == [i \in 1..N |-> MtOf(tok(centr, i, 0), part)]
                sp  == [i \in 1..N |-> tok(centr, i, 1)]
                s_e == [i \in 1..N |-> tok(centr, i, 2)]
            IN  TGraphErrors(N, mT, sp, s_e, x_e)]

\* the graphs ReadFromFileAuAu stores, by cell
ReadFromFileAuAu(file) ==
    LET N   == file[1]
        blk == 1 + N * (1 + 2 * Ncentr[0])
        tok(part, i, f) == file[part * blk + 1 + (i - 1) * (1 + 2 * Ncentr[0]) + f + 1]
        x_e == [i \in 1..N |-> X_E]
    IN  [c \in (0..5) \X (0..(Ncentr[0] - 1)) |->
            LET part  == c[1]
                centr == c[2]
                mT  == [i \in 1..N |-> MtOf(tok(part, i, 0), part)]
                sp  == [i \in 1..N |->
                           IF part = 2 \/ part = 3 THEN tok(part, i, 1 + 2 * centr) * 10
                           ELSE tok(part, i, 1 + 2 * centr)]
                s_e == [i \in 1..N |-> tok(part, i, 2 + 2 * centr)]
            IN  TGraphErrors(N, mT, sp, x_e, s_e)]

\* f merged into g, f winning where both are defined
Stored(g, f) ==
    [c \in DOMAIN g \cup DOMAIN f |-> IF c \in DOMAIN f THEN f[c] ELSE g[c]]

InitLoaders ==
    /\ CoreIdle
    /\ SpIdle
    /\ RgIdle
    /\ DrIdle
    /\ ldRun \in [ver : {"input", "headers"}, systN : ALL_SYSTS,
                  n : 1..MaxPoints, seed : 0..MaxSeed]
    /\ ldCur = 0
    /\ ldPc = "run"
    /\ grLoaded = << >>
    /\ PlIdle
    /\ AvIdle
    /\ SeIdle
    /\ DpIdle
    /\ SyIdle
    /\ RkIdle
    /\ TbIdle
    /\ LbIdle
    /\ SbIdle

\* if (systN == 0) ReadFromFileAuAu();
Call_ReadFromFileAuAu ==
    /\ ldPc = "run"
    /\ ldRun.systN = 0
    /\ grLoaded' = Stored(grLoaded, ReadFromFileAuAu(AuAuFile(ldRun.n, ldRun.seed)))
    /\ ldCur' = ldCur + 1
    /\ ldPc' = "done"
    /\ UNCHANGED <<coreVars, spVars, rgVars, drVars, ldRun, plVars, avVars, seVars, dpVars, syVars, rkVars, tbVars, lbVars, sbVars>>

\* else for (int part : PARTS) ReadFromFile(part, systN);
Call_ReadFromFile ==
    /\ ldPc = "run"
    /\ ldRun.systN # 0
    /\ LET part == ldCur
       IN  grLoaded' = Stored(grLoaded,
               ReadFromFile(SpectraFile(part, ldRun.systN, ldRun.n, ldRun.seed),
                            part, ldRun.systN))
    /\ ldCur' = ldCur + 1
    /\ ldPc' = IF ldCur + 1 = N_PARTS THEN "done" ELSE "run"
    /\ UNCHANGED <<coreVars, spVars, rgVars, drVars, ldRun, plVars, avVars, seVars, dpVars, syVars, rkVars, tbVars, lbVars, sbVars>>

NextLoaders ==
    \/ Call_ReadFromFileAuAu
    \/ Call_ReadFromFile

SpecLoaders == InitLoaders /\ [][NextLoaders]_vars

\* C17: every graph either loader stores has x = mT, y = the yield of the
\* file, y-uncertainty = the statistical error of the file, x-uncertainty 0.05
C17_LoadersBuildSameSpectrum ==
    \A c \in DOMAIN grLoaded : \A i \in 1..ldRun.n :
        grLoaded[c][i] = [ x  |-> MtOf(PtVal(i - 1), c[1]),
                           y  |-> YieldVal(ldRun.seed, c[1], c[2], i - 1),
                           ex |-> X_E,
                           ey |-> StatVal(ldRun.seed, c[1], c[2], i - 1) ]

----------------------------------------------------------------------------
(* The files of the pipeline BlastWaveGlobal_all -> BlastWaveFinal_all ->   *)
(* plot_contour.  A path is <<directory, stem, system name, extension>>.    *)

systNamesT == [s \in 0..4 |-> <<"AuAu", "pAl", "HeAu", "CuAu", "UU">>[s + 1]]

\* "output/parameters/ALL_GlobalBWparams_" + systNamesT[systN] + ".txt"
Path_GlobalAll_write(s) ==
    << "output/parameters/", "ALL_GlobalBWparams_", systNamesT[s], ".txt" >>

\* filename of Fit case 0
Path_Fit0_read(s) ==
    << "output/parameters/", "ALL_GlobalBWparams_", systNamesT[s], ".txt" >>

\* "output/parameters/ALL_FinalBWparams_" + systNamesT[systN] + ".txt"
Path_FinalAll_write(s) ==
    << "output/parameters/", "ALL_FinalBWparams_", systNamesT[s], ".txt" >>

\* the file WriteParams opens when printAll is false
Path_noErrs == << "output/txtParams/", "BWparams_noErrs", "", ".txt" >>

\* std::ifstream file("output/pics/ALL_FinalBWparams_AuAu.txt")
Path_plot_contour_read == << "output/pics/", "ALL_FinalBWparams_", "AuAu", ".txt" >>

InitPipeline ==
    /\ CoreIdle
    /\ SpIdle
    /\ RgIdle
    /\ DrIdle
    /\ LdIdle
    /\ plSyst \in ALL_SYSTS
    /\ plPc = "global_write0"
    /\ plCell = 0
    /\ plWritten = {}
    /\ plRead = {}
    /\ AvIdle
    /\ SeIdle
    /\ DpIdle
    /\ SyIdle
    /\ RkIdle
    /\ TbIdle
    /\ LbIdle
    /\ SbIdle

\* BlastWaveGlobal_all: WriteGlobalParams(&isParamsFileExist, 0 / 1, systN, path)
BlastWaveGlobal_all_write ==
    /\ plPc \in {"global_write0", "global_write1"}
    /\ plWritten' = plWritten \cup {Path_GlobalAll_write(plSyst)}
    /\ plPc' = IF plPc = "global_write0" THEN "global_write1" ELSE "final_fit"
    /\ UNCHANGED <<coreVars, spVars, rgVars, drVars, ldVars, plSyst, plCell, plRead, avVars, seVars, dpVars, syVars, rkVars, tbVars, lbVars, sbVars>>

\* BlastWaveFinal_all: one cell of bwFit->Fit(0), which opens the global file
BlastWaveFinal_all_Fit0_cell ==
    /\ plPc = "final_fit"
    /\ plRead' = plRead \cup {[path |-> Path_Fit0_read(plSyst), stage |-> "BlastWaveFinal_all"]}
    /\ plCell' = plCell + 1
    /\ plPc' = IF plCell + 1 = N_PARTS * N_CENTR_SYST[plSyst] THEN "final_write1"
               ELSE "final_fit"
    /\ UNCHANGED <<coreVars, spVars, rgVars, drVars, ldVars, plSyst, plWritten, avVars, seVars, dpVars, syVars, rkVars, tbVars, lbVars, sbVars>>

\* BlastWaveFinal_all: WriteParams(..., true, path), WriteParams(..., false, path)
BlastWaveFinal_all_write ==
    /\ plPc \in {"final_write1", "final_write2"}
    /\ plWritten' = plWritten \cup
          {IF plPc = "final_write1" THEN Path_FinalAll_write(plSyst) ELSE Path_noErrs}
    /\ plPc' = IF plPc = "final_write1" THEN "final_write2" ELSE "plot_read1"
    /\ UNCHANGED <<coreVars, spVars, rgVars, drVars, ldVars, plSyst, plCell, plRead, avVars, seVars, dpVars, syVars, rkVars, tbVars, lbVars, sbVars>>

\* plot_contour: std::ifstream file(...), std::ifstream file2(...)
plot_contour_read ==
    /\ plPc \in {"plot_read1", "plot_read2"}
    /\ plRead' = plRead \cup {[path |-> Path_plot_contour_read, stage |-> "plot_contour"]}
    /\ plPc' = IF plPc = "plot_read1" THEN "plot_read2" ELSE "done"
    /\ UNCHANGED <<coreVars, spVars, rgVars, drVars, ldVars, plSyst, plCell, plWritten, avVars, seVars, dpVars, syVars, rkVars, tbVars, lbVars, sbVars>>

NextPipeline ==
    \/ BlastWaveGlobal_all_write
    \/ BlastWaveFinal_all_Fit0_cell
    \/ BlastWaveFinal_all_write
    \/ plot_contour_read

SpecPipeline == InitPipeline /\ [][NextPipeline]_vars

\* C18: in the pipeline run for systN = 0, every parameter file a stage has
\* opened for reading is a path an earlier stage opened for writing
C18_ReadsWhatWasWritten ==
    plSyst = 0 => \A r \in plRead : r.path \in plWritten

----------------------------------------------------------------------------
\* C19: every GlobalFitCentr stores into the five slots of its own cell only:
\* each cell holds the values last stored for it, or its initial zeros, and
\* nothing is written past the array
C19_StoresStayInCell ==
    /\ ~oobWrite
    /\ \A c \in DOMAIN fitResults : \A k \in 0..(N_PARAMS_CELL - 1) :
          paramsGlobal[Addr(prog, c[1], c[2], k)] =
             IF fitResults[c] = 0 THEN 0
             ELSE FitResultVec(Npar(prog), fitResults[c])[k]

----------------------------------------------------------------------------
(* The averages of the drawing macros: GlobalDrawParams.cc (graph-based     *)
(* CalculateAverage) and NpartDrawParams.cc (CalculateAverage of            *)
(* input/headers/WriteReadFiles.h over the global arrays).  An average is   *)
(* kept as the sum and the count it is the quotient of.                     *)

SYSTS_draw == <<0, 1, 2, 3, 4>>

\* systNamesT[systN].Contains("ARTICLE") || systNamesT[systN].Contains("STAR")
Excluded(s) == systNamesT[s] \in {"ARTICLE", "STAR"}

\* the values the global-fit parameter file of system s holds for (charge, centr)
FileT(run, s, charge, centr) == 100 + 20 * s * run.prof + 2 * centr + charge + run.seed

FileUt(run, s, charge, centr) == 500 + 30 * s * run.prof + 3 * centr + charge + run.seed

\* the two loops of SetGraphs that copy paramsGlobal into Tpar / utPar
SetGraphs_fill(arr, run, s, k) ==
    [charge \in 0..1 |-> [centr \in 0..(N_CENTR_input - 1) |->
        IF centr < N_CENTR_SYST[s]
        THEN (IF k = 0 THEN FileT(run, s, charge, centr) ELSE FileUt(run, s, charge, centr))
        ELSE arr[charge][centr]]]

\* new TGraphErrors(N_CENTR_SYST[systN], Npart[systN], arr[charge], xerr, xerr)
SetGraphs_graph(arr, s, charge) ==
    [null |-> FALSE, y |-> [i \in 1..N_CENTR_SYST[s] |-> arr[charge][i - 1]]]

\* a null TGraphErrors*
NullGraph == [null |-> TRUE, y |-> << >>]

RECURSIVE SeqSum(_)
SeqSum(q) == IF q = << >> THEN 0 ELSE Head(q) + SeqSum(Tail(q))

\* sum and count of CalculateAverage of GlobalDrawParams.cc over systems n..5
RECURSIVE CalculateAverage_graph(_, _)
CalculateAverage_graph(g, n) ==
    IF n > Len(SYSTS_draw) THEN [sum |-> 0, count |-> 0]
    ELSE LET s    == SYSTS_draw[n]
             rest == CalculateAverage_graph(g, n + 1)
             pts(charge) == IF g[<<charge, s>>].null THEN << >> ELSE g[<<charge, s>>].y
         IN  [sum   |-> SeqSum(pts(0)) + SeqSum(pts(1)) + rest.sum,
              count |-> Len(pts(0)) + Len(pts(1)) + rest.count]

\* sum and count of CalculateAverage of input/headers/WriteReadFiles.h
RECURSIVE CalculateAverage_array(_, _)
CalculateAverage_array(arr, n) ==
    IF n > Len(SYSTS_draw) THEN [sum |-> 0, count |-> 0]
    ELSE LET s    == SYSTS_draw[n]
             rest == CalculateAverage_array(arr, n + 1)
             row(charge) == [i \in 1..N_CENTR_SYST[s] |-> arr[charge][i - 1]]
         IN  IF Excluded(s) THEN rest
             ELSE [sum   |-> SeqSum(row(0)) + SeqSum(row(1)) + rest.sum,
                   count |-> 2 * N_CENTR_SYST[s] + rest.count]

InitAverage ==
    /\ CoreIdle
    /\ SpIdle
    /\ RgIdle
    /\ DrIdle
    /\ LdIdle
    /\ PlIdle
    /\ avRun \in [impl : {"graph", "array"}, seed : 0..MaxSeed, prof : 1..MaxProf]
    /\ avPc = "setT"
    /\ avCur = 0
    /\ Tpar = [charge \in 0..1 |-> [centr \in 0..(N_CENTR_input - 1) |-> 0]]
    /\ utPar = [charge \in 0..1 |-> [centr \in 0..(N_CENTR_input - 1) |-> 0]]
    /\ gr = [c \in (0..1) \X (0..4) |-> NullGraph]
    /\ gAvgT = [sum |-> 0, count |-> 1]
    /\ gAvgUt = [sum |-> 0, count |-> 1]
    /\ SeIdle
    /\ DpIdle
    /\ SyIdle
    /\ RkIdle
    /\ TbIdle
    /\ LbIdle
    /\ SbIdle

\* SetGraphs(systN, paramName) for the next system of the loop
SetGraphs ==
    /\ avPc \in {"setT", "setUt"}
    /\ LET s  == SYSTS_draw[avCur + 1]
           t  == SetGraphs_fill(Tpar, avRun, s, 0)
           u  == SetGraphs_fill(utPar, avRun, s, 1)
       IN  /\ Tpar' = t
           /\ utPar' = u
           /\ gr' = [c \in DOMAIN gr |->
                        IF c[2] = s
                        THEN SetGraphs_graph(IF avPc = "setT" THEN t ELSE u, s, c[1])
                        ELSE gr[c]]
    /\ avCur' = IF avCur + 1 = Len(SYSTS_draw) THEN 0 ELSE avCur + 1
    /\ avPc' = IF avCur + 1 < Len(SYSTS_draw) THEN avPc
               ELSE IF avPc = "setT" THEN "avgT" ELSE "avgUt"
    /\ UNCHANGED <<coreVars, spVars, rgVars, drVars, ldVars, plVars, avRun, gAvgT, gAvgUt, seVars, dpVars, syVars, rkVars, tbVars, lbVars, sbVars>>

\* CalculateAverage(paramName) of the macro that runs
CalculateAverage ==
    /\ avPc \in {"avgT", "avgUt"}
    /\ LET a == IF avRun.impl = "graph" THEN CalculateAverage_graph(gr, 1)
                ELSE CalculateAverage_array(IF avPc = "avgT" THEN Tpar ELSE utPar, 1)
       IN  /\ gAvgT' = IF avPc = "avgT" /\ a.count > 0 THEN a ELSE gAvgT
           /\ gAvgUt' = IF avPc = "avgUt" /\ a.count > 0 THEN a ELSE gAvgUt
    /\ avPc' = IF avPc = "avgT" THEN "setUt" ELSE "done"
    /\ UNCHANGED <<coreVars, spVars, rgVars, drVars, ldVars, plVars, avRun, avCur,
                   Tpar, utPar, gr, seVars, dpVars, syVars, rkVars, tbVars, lbVars, sbVars>>

NextAverage ==
    \/ SetGraphs
    \/ CalculateAverage

SpecAverage == InitAverage /\ [][NextAverage]_vars

\* the sum and the count of the values of every system's own file
RECURSIVE OwnFileSum(_, _, _)
OwnFileSum(run, k, n) ==
    IF n > Len(SYSTS_draw) THEN [sum |-> 0, count |-> 0]
    ELSE LET s    == SYSTS_draw[n]
             rest == OwnFileSum(run, k, n + 1)
             row(charge) == [i \in 1..N_CENTR_SYST[s] |->
                                IF k = 0 THEN FileT(run, s, charge, i - 1)
                                ELSE FileUt(run, s, charge, i - 1)]
         IN  IF Excluded(s) THEN rest
             ELSE [sum   |-> SeqSum(row(0)) + SeqSum(row(1)) + rest.sum,
                   count |-> 2 * N_CENTR_SYST[s] + rest.count]

SameQuotient(a, b) == a.sum * b.count = b.sum * a.count

\* C20: after SetGraphs for every system, the average CalculateAverage leaves
\* in gAvgT / gAvgUt is the mean of the values of every system's own file,
\* in both implementations
C20_AverageIsMeanOfOwnFiles ==
    /\ (avRun # << >> /\ avPc \in {"setUt", "avgUt", "done"}) =>
          SameQuotient(gAvgT, OwnFileSum(avRun, 0, 1))
    /\ (avRun # << >> /\ avPc = "done") => SameQuotient(gAvgUt, OwnFileSum(avRun, 1, 1))

----------------------------------------------------------------------------
(* Specification of one ROOT session that invokes BlastWaveGlobal or        *)
(* BlastWaveGlobal_all several times.  isParamsFileExist is a global of the *)
(* macro: it is initialised when the macro is loaded and no invocation      *)
(* assigns it except through WriteGlobalParams.                             *)

CHARGE_FLAGS == {"all", "pos", "neg"}

\* the charges one invocation fits and writes:
\*   if (chargeFlag != "neg") ... 0;  if (chargeFlag != "pos") ... 1;
FlagCharges(chargeFlag) ==
    IF chargeFlag = "pos" THEN << 0 >>
    ELSE IF chargeFlag = "neg" THEN << 1 >> ELSE << 0, 1 >>

\* paramsGlobal after the loop of GlobalFitCentr calls of one invocation: the
\* cells of the fitted charges hold the fit results, the others keep their
\* values
BlastWaveGlobal_fit(mem, fitted, chargeFlag) ==
    [a \in DOMAIN mem |->
        IF <<(a \div N_PARAMS_CELL) \div N_CENTR_input>> \in
               {<< FlagCharges(chargeFlag)[i] >> : i \in DOMAIN FlagCharges(chargeFlag)}
        THEN fitted[a] ELSE mem[a]]

\* gROOT->ProcessLine(".q") terminates the ROOT session
ProcessLine_q_ignored == "idle"

ProcessLine_q == "quit"

\* where the session is after DrawFitSpectra: the one of BlastWaveGlobal.C ends
\* with gROOT->ProcessLine(".q"), in BlastWaveGlobal_all.C the line is a comment
DrawFitSpectra_end(pr) == IF pr = "Global" THEN ProcessLine_q ELSE "idle"

InitSession ==
    /\ prog \in {"Global", "Global_all"}
    /\ systN \in SYSTS
    /\ chiCharge = 0
    /\ chiPar = NoCall
    /\ ChiIdle
    /\ grN = [s \in 0..5 |-> 1]
    /\ FitIdle
    /\ paramsGlobal = [a \in 0..(MemSize("Global") - 1) |-> 0]
    /\ fitResults = <<>>
    /\ IoIdle
    /\ isParamsFileExist = FALSE
    /\ \E old \in BOOLEAN :
          gFile = [exists |-> old,
                   lines |-> IF old THEN << WriteGlobalParams_line(
                                 [a \in 0..(MemSize("Global") - 1) |-> 7], 0, 0) >>
                             ELSE << >>]
    /\ gWritten = <<>>
    /\ rdReader = NoCall
    /\ rdGlobal = <<>>
    /\ rdPos = 0
    /\ rdPc = "idle"
    /\ BwIdle
    /\ ConIdle
    /\ SpIdle
    /\ RgIdle
    /\ DrIdle
    /\ LdIdle
    /\ PlIdle
    /\ AvIdle
    /\ seHist = << >>
    /\ sePc = "idle"
    /\ DpIdle
    /\ SyIdle
    /\ RkIdle
    /\ TbIdle
    /\ LbIdle
    /\ SbIdle

\* BlastWaveGlobal(chargeFlag) / BlastWaveGlobal_all(chargeFlag) up to the end
\* of the fit loop
BlastWaveGlobal_enter ==
    /\ sePc = "idle"
    /\ Len(seHist) < MaxRuns
    /\ \E chargeFlag \in CHARGE_FLAGS, seed \in 0..MaxSeed :
          /\ seHist' = Append(seHist, chargeFlag)
          /\ paramsGlobal' = BlastWaveGlobal_fit(paramsGlobal,
                                 FilledGlobal(seed, systN), chargeFlag)
    /\ sePc' = "write0"
    /\ UNCHANGED <<prog, systN, chiVars, grN, fitTerms, fitNData, fitCharge,
                   fitResults, oobWrite, ioVars, gVars, bwVars, conVars,
                   spVars, rgVars, drVars, ldVars, plVars, avVars, dpVars, syVars, rkVars, tbVars, lbVars, sbVars>>

\* if (chargeFlag != "neg") WriteGlobalParams(&isParamsFileExist, 0, systN, ...)
BlastWaveGlobal_write0 ==
    /\ sePc = "write0"
    /\ IF seHist[Len(seHist)] # "neg"
       THEN /\ gFile' = WriteGlobalParams(isParamsFileExist, gFile, paramsGlobal,
                                          0, systN)
            /\ gWritten' = IF isParamsFileExist THEN Append(gWritten, 0) ELSE << 0 >>
            /\ isParamsFileExist' = TRUE
       ELSE UNCHANGED <<gFile, gWritten, isParamsFileExist>>
    /\ sePc' = "write1"
    /\ UNCHANGED <<prog, systN, chiVars, fitVars, ioVars, rdReader, rdGlobal,
                   rdPos, rdPc, bwVars, conVars,
                   spVars, rgVars, drVars, ldVars, plVars, avVars, seHist, dpVars, syVars, rkVars, tbVars, lbVars, sbVars>>

\* if (chargeFlag != "pos") WriteGlobalParams(&isParamsFileExist, 1, systN, ...)
BlastWaveGlobal_write1 ==
    /\ sePc = "write1"
    /\ IF seHist[Len(seHist)] # "pos"
       THEN /\ gFile' = WriteGlobalParams(isParamsFileExist, gFile, paramsGlobal,
                                          1, systN)
            /\ gWritten' = IF isParamsFileExist THEN Append(gWritten, 1) ELSE << 1 >>
            /\ isParamsFileExist' = TRUE
       ELSE UNCHANGED <<gFile, gWritten, isParamsFileExist>>
    /\ sePc' = "draw"
    /\ UNCHANGED <<prog, systN, chiVars, fitVars, ioVars, rdReader, rdGlobal,
                   rdPos, rdPc, bwVars, conVars,
                   spVars, rgVars, drVars, ldVars, plVars, avVars, seHist, dpVars, syVars, rkVars, tbVars, lbVars, sbVars>>

\* DrawFitSpectra(systN, chargeFlag), the last statement of the macro
BlastWaveGlobal_draw ==
    /\ sePc = "draw"
    /\ sePc' = DrawFitSpectra_end(prog)
    /\ UNCHANGED <<coreVars, spVars, rgVars, drVars, ldVars, plVars, avVars, seHist, dpVars, syVars, rkVars, tbVars, lbVars, sbVars>>

NextSession ==
    \/ BlastWaveGlobal_enter
    \/ BlastWaveGlobal_write0
    \/ BlastWaveGlobal_write1
    \/ BlastWaveGlobal_draw

\* an invocation that was entered runs to its end
SpecSession == InitSession /\ [][NextSession]_vars
                   /\ WF_vars(BlastWaveGlobal_write0 \/ BlastWaveGlobal_write1
                                  \/ BlastWaveGlobal_draw)

\* the blocks one invocation with chargeFlag writes into an empty file
RunBlocks(chargeFlag) ==
    LET block(charge) == [j \in 1..N_CENTR_SYST[systN] |->
                            WriteGlobalParams_line(paramsGlobal, charge,
                                                   CENTR_SYST[systN][j - 1])]
    IN  IF chargeFlag = "all" THEN block(0) \o << Blank >> \o block(1)
        ELSE IF chargeFlag = "pos" THEN block(0) ELSE block(1)

\* C21: WriteGlobalParams never clears the flag, a write with the flag clear
\* leaves exactly its own block, a write with the flag set keeps the lines and
\* adds one empty line and its block; so the first invocation of a session
\* leaves the block of charge 0 followed by the block of charge 1 for "all"
\* and exactly one block for "pos" and "neg"
C21_FlagDrivesFileMode ==
    [][ /\ isParamsFileExist => isParamsFileExist'
        /\ (gFile' # gFile) =>
              /\ isParamsFileExist'
              /\ \E charge \in {0, 1} :
                    LET block == [j \in 1..N_CENTR_SYST[systN] |->
                                    WriteGlobalParams_line(paramsGlobal, charge,
                                                           CENTR_SYST[systN][j - 1])]
                    IN  gFile'.lines = IF isParamsFileExist
                                       THEN gFile.lines \o << Blank >> \o block
                                       ELSE block
        /\ (Len(seHist) = 1 /\ sePc = "write1" /\ sePc' = "draw") =>
              /\ gFile'.lines = RunBlocks(seHist[1])
              /\ Len(Records(gFile'.lines)) =
                    Len(FlagCharges(seHist[1])) * N_CENTR_SYST[systN]
      ]_vars

C21_Witness ==
    /\ Len(seHist) = 1
    /\ seHist[1] = "all"
    /\ sePc \in {"idle", "quit"}
    /\ isParamsFileExist
    /\ gWritten = << 0, 1 >>
    /\ Len(gFile.lines) = 2 * N_CENTR_SYST[systN] + 1

\* C22: a second invocation with the same chargeFlag and the same fit results
\* leaves the file the first one left: the blocks of one invocation, each once
C22_RerunLeavesSameFile ==
    (/\ Len(seHist) = 2
     /\ sePc = "idle"
     /\ seHist[1] = seHist[2]) =>
        /\ gFile.lines = RunBlocks(seHist[2])
        /\ Len(Records(gFile.lines)) = Len(FlagCharges(seHist[2])) * N_CENTR_SYST[systN]

----------------------------------------------------------------------------
(* Specification of a ROOT session that runs BWDrawParams or CentDrawParams. *)
(* avgT and avgUt are globals of the macro, zero when the macro is loaded.   *)

DRAW_MACROS == {"BWDrawParams", "CentDrawParams"}

\* the centralities the averaging loop visits: for (int centr: CENTR) with the
\* CENTR of def.h in BWDrawParams, CENTR_SYST[systN][0 .. N_CENTR_SYST[systN]-1]
\* in CentDrawParams
DrawCentr(run) ==
    IF run.macro = "BWDrawParams" THEN 0..(N_CENTR_root - 1)
    ELSE {CENTR_SYST[run.systN][j] : j \in 0..(N_CENTR_SYST[run.systN] - 1)}

\* the values ReadParam(1, ...) and ReadParam(2, ...) leave in Tpar and utPar,
\* in a unit in which the mean over the visited cells is a whole number
DrawFileT(seed, prof, part, centr) == 360 * (100 + prof * (part + 2 * centr) + seed)

DrawFileUt(seed, prof, part, centr) == 360 * (500 + prof * (3 * part + centr) + seed)

RECURSIVE SumCells(_, _)
SumCells(arr, cells) ==
    IF cells = {} THEN 0
    ELSE LET c == CHOOSE x \in cells : TRUE
         IN  arr[c[1]][c[2]] + SumCells(arr, cells \ {c})

\* the averaging loop and the division: avg += arr[part][centr] for every
\* centr of the loop and part = 0..5, count++; avg = avg / double(count)
DrawParams_avg(avg, arr, run) ==
    LET cells == (0..5) \X DrawCentr(run)
    IN  (avg + SumCells(arr, cells)) \div Cardinality(cells)

InitDrawParams ==
    /\ CoreIdle
    /\ SpIdle
    /\ RgIdle
    /\ DrIdle
    /\ LdIdle
    /\ PlIdle
    /\ AvIdle
    /\ SeIdle
    /\ dpRun \in [macro : {"BWDrawParams"}, systN : {0}]
                    \cup [macro : {"CentDrawParams"}, systN : ALL_SYSTS]
    /\ dpPc = "idle"
    /\ dpCalls = 0
    /\ avgT = 0
    /\ avgUt = 0
    /\ SyIdle
    /\ RkIdle
    /\ TbIdle
    /\ LbIdle
    /\ SbIdle

\* BWDrawParams() / CentDrawParams() is called: ReadParam(1, Tpar, ...),
\* ReadParam(2, utPar, ...)
DrawParams_read ==
    /\ dpPc = "idle"
    /\ dpCalls < MaxRuns
    /\ dpCalls' = dpCalls + 1
    /\ \E seed \in 0..MaxSeed, prof \in 0..MaxProf :
          /\ Tpar' = [part \in 0..5 |-> [centr \in 0..(N_CENTR_input - 1) |->
                         DrawFileT(seed, prof, part, centr)]]
          /\ utPar' = [part \in 0..5 |-> [centr \in 0..(N_CENTR_input - 1) |->
                         DrawFileUt(seed, prof, part, centr)]]
    /\ dpPc' = "avg"
    /\ UNCHANGED <<coreVars, spVars, rgVars, drVars, ldVars, plVars, seVars,
                   avRun, avPc, avCur, gr, gAvgT, gAvgUt, dpRun, avgT, avgUt, syVars, rkVars, tbVars, lbVars, sbVars>>

\* the loop over the centralities and the species, and the two divisions
DrawParams_average ==
    /\ dpPc = "avg"
    /\ avgT' = DrawParams_avg(avgT, Tpar, dpRun)
    /\ avgUt' = IF dpRun.macro = "CentDrawParams"
                THEN DrawParams_avg(avgUt, utPar, dpRun) ELSE avgUt
    /\ dpPc' = "draw"
    /\ UNCHANGED <<coreVars, spVars, rgVars, drVars, ldVars, plVars, avVars, seVars,
                   dpRun, dpCalls, syVars, rkVars, tbVars, lbVars, sbVars>>

\* DrawParam("T"); DrawParam("ut"); gROOT->ProcessLine(".q");
DrawParams_draw ==
    /\ dpPc = "draw"
    /\ dpPc' = ProcessLine_q
    /\ UNCHANGED <<coreVars, spVars, rgVars, drVars, ldVars, plVars, avVars, seVars,
                   dpRun, dpCalls, avgT, avgUt, syVars, rkVars, tbVars, lbVars, sbVars>>

NextDrawParams ==
    \/ DrawParams_read
    \/ DrawParams_average
    \/ DrawParams_draw

SpecDrawParams == InitDrawParams /\ [][NextDrawParams]_vars

----------------------------------------------------------------------------
(* Specification of setParamsForSys: the two-argument function of            *)
(* BlastWaveFit.h and the three-argument one of BlastWaveSystematic.C.       *)
(* Values are in units of 1e-4.                                             *)

SYS_VERSIONS == {"BlastWaveFit.h", "BlastWaveSystematic.C"}

\* the statements under each case label, in the order of the switch:
\* << label, target, factor numerator, factor denominator >>
setParamsForSys_switch(ver) ==
    IF ver = "BlastWaveFit.h"
    THEN << << 1, "T", 9, 10 >>, << 2, "T", 11, 10 >>,
            << 3, "beta", 9, 10 >>, << 4, "beta", 11, 10 >>,
            << 5, "constant", 9, 10 >>, << 6, "constant", 11, 10 >> >>
    ELSE << << 1, "T", 8, 10 >>, << 2, "T", 12, 10 >>,
            << 3, "beta", 8, 10 >>, << 4, "beta", 12, 10 >>,
            << 5, "constant", 1, 10 >>, << 6, "constant", 10, 1 >>,
            << 7, "lLimitMult", 8, 10 >>, << 7, "rLimitMult", 8, 10 >>,
            << 8, "lLimitMult", 12, 10 >>, << 8, "rLimitMult", 12, 10 >>,
            << 9, "lLimitMultPi", 12, 10 >>, << 9, "rLimitMultPi", 8, 10 >>,
            << 10, "lLimitMultPi", 12, 10 >>, << 10, "rLimitMultPi", 12, 10 >> >>

\* one statement  target *= factor
SysStatement(st, stmt) ==
    LET f(v) == Scale(v, stmt[3], stmt[4])
    IN  CASE stmt[2] = "constant" -> [st EXCEPT !.par[1] = f(@)]
          [] stmt[2] = "T"        -> [st EXCEPT !.par[2] = f(@)]
          [] stmt[2] = "beta"     -> [st EXCEPT !.par[3] = f(@)]
          [] OTHER                -> [st EXCEPT !.mult[stmt[2]] = f(@)]

RECURSIVE SysRun(_, _)
SysRun(stmts, st) ==
    IF stmts = << >> THEN st ELSE SysRun(Tail(stmts), SysStatement(st, Head(stmts)))

\* a switch in which every case ends with break: the statements of the
\* label only
setParamsForSys_break(ver, systematicType, st) ==
    SysRun(SelectSeq(setParamsForSys_switch(ver),
                     LAMBDA stmt : stmt[1] = systematicType), st)

\* switch (systematicType): control enters at the label equal to
\* systematicType and, no case having a break, runs to the end of the switch;
\* without such a label the switch is skipped
setParamsForSys(ver, systematicType, st) ==
    SysRun(SelectSeq(setParamsForSys_switch(ver),
                     LAMBDA stmt : /\ stmt[1] >= systematicType
                                   /\ \E i \in 1..Len(setParamsForSys_switch(ver)) :
                                         setParamsForSys_switch(ver)[i][1] = systematicType),
           st)

\* parResults as getGlobalParams leaves it
SysPar(prof, part) == << 100000 * (prof + 1), 1000 + 100 * prof, 5000 + 1000 * prof,
                         masses[part] >>

\* double lLimitMult = 0.5, rLimitMult = 1.5; lLimitMultPi = 0.5, rLimitMultPi = 1.
BlastWaveFit_mult ==
    [lLimitMult |-> 5000, rLimitMult |-> 15000,
     lLimitMultPi |-> 5000, rLimitMultPi |-> 10000]

SYS_TYPES == (0 - 1)..10

InitSys ==
    /\ CoreIdle
    /\ SpIdle
    /\ RgIdle
    /\ DrIdle
    /\ LdIdle
    /\ PlIdle
    /\ AvIdle
    /\ SeIdle
    /\ DpIdle
    /\ syRun \in [ver : SYS_VERSIONS, type : SYS_TYPES, prof : 0..MaxProf]
    /\ syPc = "call"
    /\ parResults = SysPar(syRun.prof, 0)
    /\ bwFit = BlastWaveFit_mult
    /\ RkIdle
    /\ TbIdle
    /\ LbIdle
    /\ SbIdle

\* setParamsForSys(systematicType, parResults) /
\* setParamsForSys(systematicType, parResults, bwFit)
Call_setParamsForSys ==
    /\ syPc = "call"
    /\ LET st == setParamsForSys(syRun.ver, syRun.type,
                                 [par |-> parResults, mult |-> bwFit])
       IN  /\ parResults' = st.par
           /\ bwFit' = st.mult
    /\ syPc' = "done"
    /\ UNCHANGED <<coreVars, spVars, rgVars, drVars, ldVars, plVars, avVars, seVars,
                   dpVars, syRun, rkVars, tbVars, lbVars, sbVars>>

NextSys == Call_setParamsForSys

SpecSys == InitSys /\ [][NextSys]_vars

\* C24: after setParamsForSys(k, ...) only the quantity of case k has changed,
\* by the factor of case k
C24_OneVariationPerType ==
    (syRun # << >> /\ syPc = "done") =>
        LET st == setParamsForSys_break(syRun.ver, syRun.type,
                      [par |-> SysPar(syRun.prof, 0), mult |-> BlastWaveFit_mult])
        IN  /\ parResults = st.par
            /\ bwFit = st.mult

----------------------------------------------------------------------------
\* C25: in every cell of Fit(4) the limits of parameter par are
\* [value * lLimitMult, min(value * rLimitMult0, 0.95)] with the rLimitMult0
\* = 1.5 the object had when Fit was called, and the lower limit does not
\* exceed the upper one
C25_Case4LimitsPerCall ==
    (/\ drRun # << >>
     /\ drRun.prog = "Fit"
     /\ drRun.type = 4
     /\ fitter # << >>) =>
        \A par \in 1..3 :
            LET value == fitter.init[par]
                lim   == fitter.limits[par]
            IN  /\ lim.p = par - 1
                /\ lim.lo = Scale(value, 1, 2)
                /\ lim.hi = Min2(TimesMult(value, << 3, 2 >>), 9500)
                /\ value > 0 => lim.lo <= lim.hi

----------------------------------------------------------------------------
(* Specification of SetGraphs(systN, paramName, fitType) of NpartDrawParams: *)
(* the file it selects and the cells ReadGlobalParams stores into.           *)

FIT_TYPES == {"GLOBAL", "FINAL"}

\* the records of the file SetGraphs names: ALL_GlobalBWparams_<syst>.txt as
\* BlastWaveGlobal_all("all") writes it with WriteGlobalParams, or
\* ALL_FinalBWparams_<syst>.txt as BlastWaveFinal_all writes it with
\* WriteParams(printAll = true)
SetGraphs_file(fitType, s, seed) ==
    IF fitType = "GLOBAL"
    THEN Records(WriteGlobalParams(TRUE,
                     WriteGlobalParams(FALSE, [exists |-> FALSE, lines |-> <<>>],
                                       FilledGlobal(seed, s), 0, s),
                     FilledGlobal(seed, s), 1, s).lines)
    ELSE WriteParams("headers", s, FilledPar("headers", seed, 0),
                     FilledPar("headers", seed, 4))

\* the cells one pass of
\*   txtFile >> charge >> centr >> paramsGlobal[charge][centr][0] >> ... >> [4]
\* stores into: the first two tokens of the record are the indices
ReadGlobalParams_targets(rec) == {<< rec[1], rec[2], k >> : k \in 0..(N_PARAMS_CELL - 1)}

InitSetGraphs ==
    /\ CoreIdle
    /\ SpIdle
    /\ RgIdle
    /\ DrIdle
    /\ LdIdle
    /\ PlIdle
    /\ AvIdle
    /\ SeIdle
    /\ DpIdle
    /\ SyIdle
    /\ rkRun \in [fitType : FIT_TYPES, systN : ALL_SYSTS, seed : 0..MaxSeed]
    /\ rkPc = "open"
    /\ rkPos = 0
    /\ rkStores = {}
    /\ TbIdle
    /\ LbIdle
    /\ SbIdle

\* one round of while (true) { for (j < N_CENTR_SYST[systN]) ...; if (eof) break; }
\* of the ReadGlobalParams SetGraphs calls
SetGraphs_ReadGlobalParams ==
    /\ rkPc \in {"open", "reading"}
    /\ LET recs == SetGraphs_file(rkRun.fitType, rkRun.systN, rkRun.seed)
           n    == N_CENTR_SYST[rkRun.systN]
           eof  == rkPos + n > Len(recs)
           last == IF eof THEN Len(recs) ELSE rkPos + n
       IN  /\ rkStores' = rkStores \cup
                  UNION {ReadGlobalParams_targets(recs[i]) : i \in (rkPos + 1)..last}
           /\ rkPos' = last
           /\ rkPc' = IF eof THEN "copy" ELSE "reading"
    /\ UNCHANGED <<coreVars, spVars, rgVars, drVars, ldVars, plVars, avVars, seVars,
                   dpVars, syVars, rkRun, tbVars, lbVars, sbVars>>

\* the loops of SetGraphs over charge in {0, 1} and centr < N_CENTR_SYST[systN]
\* that copy paramsGlobal[charge][centr][...] to Tpar and utPar
SetGraphs_copy ==
    /\ rkPc = "copy"
    /\ rkPc' = "done"
    /\ UNCHANGED <<coreVars, spVars, rgVars, drVars, ldVars, plVars, avVars, seVars,
                   dpVars, syVars, rkRun, rkPos, rkStores, tbVars, lbVars, sbVars>>

NextSetGraphs ==
    \/ SetGraphs_ReadGlobalParams
    \/ SetGraphs_copy

SpecSetGraphs == InitSetGraphs /\ [][NextSetGraphs]_vars

\* C26: every cell ReadGlobalParams stores into is paramsGlobal[charge][centr][k]
\* with charge in {0, 1}, centr below N_CENTR and k in 0..4, for both kinds
\* of file
C26_StoresInsideParamsGlobal ==
    \A t \in rkStores :
        /\ t[1] \in {0, 1}
        /\ t[2] \in 0..(N_CENTR_input - 1)
        /\ t[3] \in 0..(N_PARAMS_CELL - 1)

----------------------------------------------------------------------------
(* Specification of the lookups into the per-centrality tables of            *)
(* input/def.h made by the loops over (part, centr).                         *)

\* the number of elements each table is declared with: Color_t centrColors[11],
\* string centrTitles[10], string centrTitle[6] (local of WriteParams),
\* double handT[] and handBeta[] with 12 initialisers
TableLen ==
    [centrColors |-> 11, centrTitles |-> 10, centrTitle |-> 6,
     handT |-> 12, handBeta |-> 12]

\* the tables each loop indexes with centr
SiteTables(site) ==
    CASE site = "BlastWaveFit::Fit"      -> {"centrColors"}
      [] site = "BlastWaveFinal_all"     -> {"centrColors", "centrTitles"}
      [] site = "WriteParams"            -> {"centrTitle"}
      [] site = "BlastWaveGlobal_all"    -> {"handT", "handBeta"}

TABLE_SITES == {"BlastWaveFit::Fit", "BlastWaveFinal_all", "WriteParams",
                "BlastWaveGlobal_all"}

InitTables ==
    /\ CoreIdle
    /\ SpIdle
    /\ RgIdle
    /\ DrIdle
    /\ LdIdle
    /\ PlIdle
    /\ AvIdle
    /\ SeIdle
    /\ DpIdle
    /\ SyIdle
    /\ RkIdle
    /\ tbRun \in [site : TABLE_SITES, systN : ALL_SYSTS]
    /\ tbCur = 0
    /\ tbLookups = {}
    /\ LbIdle
    /\ SbIdle

\* one pass of  for (j < N_CENTR_SYST[systN]) { centr = CENTR_SYST[systN][j]; ... }
Lookup_centr ==
    /\ tbRun # << >>
    /\ tbCur < N_CENTR_SYST[tbRun.systN]
    /\ LET centr == CENTR_SYST[tbRun.systN][tbCur]
       IN  tbLookups' = tbLookups \cup {<< t, centr >> : t \in SiteTables(tbRun.site)}
    /\ tbCur' = tbCur + 1
    /\ UNCHANGED <<coreVars, spVars, rgVars, drVars, ldVars, plVars, avVars, seVars,
                   dpVars, syVars, rkVars, tbRun, lbVars, sbVars>>

NextTables == Lookup_centr

SpecTables == InitTables /\ [][NextTables]_vars

\* C27: every index used for centrColors, centrTitles, centrTitle, handT and
\* handBeta is below the length of its table, for every system
C27_LookupsInsideTables ==
    \A l \in tbLookups : l[2] >= 0 /\ l[2] < TableLen[l[1]]

----------------------------------------------------------------------------
(* Specification of the point count N of ReadFromFile and ReadFromFileAuAu   *)
(* of input/WriteReadFiles.h and of the indices of their point buffers.      *)

\* double mT[30], pT[30], s[30], s_e[30], s_s[30], x_e[30]
BUF_LEN == 30

\* the first token of the file: not a number, or a count
COUNT_TOKENS == {NaT, 1, BUF_LEN, MaxCount}

\* the values the uninitialised local  int N;  can hold
GARBAGE_N == {0 - 1, 0, MaxCount}

\* f >> N: a stream that is not open stores nothing, a token that is not a
\* number stores 0, a number is stored
ReadCount(open, token, n) ==
    IF ~open THEN n ELSE IF token = NaT THEN 0 ELSE token

\* the passes of the outer loop: the centralities in ReadFromFile, the six
\* species in ReadFromFileAuAu
LoaderPasses(run) == IF run.fn = "ReadFromFileAuAu" THEN N_PARTS ELSE Ncentr[run.systN]

InitLoaderBounds ==
    /\ CoreIdle
    /\ SpIdle
    /\ RgIdle
    /\ DrIdle
    /\ LdIdle
    /\ PlIdle
    /\ AvIdle
    /\ SeIdle
    /\ DpIdle
    /\ SyIdle
    /\ RkIdle
    /\ TbIdle
    /\ lbRun \in [fn : {"ReadFromFileAuAu"}, systN : {0}, open : BOOLEAN,
                  count : COUNT_TOKENS]
                    \cup [fn : {"ReadFromFile"}, systN : 1..4, open : BOOLEAN,
                          count : COUNT_TOKENS]
    /\ lbPc = "open"
    /\ lbCur = 0
    /\ lbN \in GARBAGE_N
    /\ lbMaxIdx = 0 - 1
    /\ lbUsedN = FALSE
    /\ SbIdle

\* ReadFromFile up to the loop over the centralities: f.open(...); f >> N;
\* ReadFromFileAuAu up to the loop over the species: f.open(...)
Loader_open ==
    /\ lbPc = "open"
    /\ lbN' = IF lbRun.fn = "ReadFromFile" THEN ReadCount(lbRun.open, lbRun.count, lbN)
              ELSE lbN
    /\ lbPc' = "loop"
    /\ UNCHANGED <<coreVars, spVars, rgVars, drVars, ldVars, plVars, avVars, seVars,
                   dpVars, syVars, rkVars, tbVars, lbRun, lbCur, lbMaxIdx, lbUsedN, sbVars>>

\* one pass of the outer loop: (ReadFromFileAuAu: f >> N;) for (i < N) the
\* stores into pT[i], mT[i], s..[i]; new TGraphErrors(N, ...)
Loader_pass ==
    /\ lbPc = "loop"
    /\ LET n == IF lbRun.fn = "ReadFromFileAuAu"
                THEN ReadCount(lbRun.open, lbRun.count, lbN) ELSE lbN
       IN  /\ lbN' = n
           /\ lbMaxIdx' = IF n - 1 > lbMaxIdx THEN n - 1 ELSE lbMaxIdx
    /\ lbUsedN' = TRUE
    /\ lbCur' = lbCur + 1
    /\ lbPc' = IF lbCur + 1 = LoaderPasses(lbRun) THEN "done" ELSE "loop"
    /\ UNCHANGED <<coreVars, spVars, rgVars, drVars, ldVars, plVars, avVars, seVars,
                   dpVars, syVars, rkVars, tbVars, lbRun, sbVars>>

NextLoaderBounds ==
    \/ Loader_open
    \/ Loader_pass

SpecLoaderBounds == InitLoaderBounds /\ [][NextLoaderBounds]_vars

\* C28: the loaders never write a point buffer at index 30 or beyond, and
\* use N only when the file was opened and its count was read
C28_PointBuffersInBounds ==
    /\ lbMaxIdx < BUF_LEN
    /\ lbUsedN => (lbRun.open /\ lbRun.count # NaT)

----------------------------------------------------------------------------
(* Specification of the conversion of one histogram to a graph in            *)
(* SetSpectra(inputFileName, "mt") of def.h and input/def.h.                 *)

\* GetBinCenter(bin), GetBinContent(bin), GetBinError(bin) of the histogram
HistBin(run, bin) ==
    [center |-> PtVal(bin - 1),
     content |-> YieldVal(run.seed, run.part, 0, bin),
     error |-> StatVal(run.seed, run.part, 0, bin)]

\* the condition of  for (int bin = 1; bin < N_BINS; bin++)
SetSpectra_binLoop(bin, N_BINS) == bin < N_BINS

\* the point count of  new TGraphErrors(N_BINS - 1, mT, sp, xerr, sp_err)
SetSpectra_npoints(N_BINS) == N_BINS - 1

\* the body of the loop: element bin - 1 of mT, sp, xerr and sp_err
SetSpectra_element(run, bin) ==
    [x  |-> MtOf(HistBin(run, bin).center, run.part),
     y  |-> HistBin(run, bin).content,
     ex |-> 0,
     ey |-> HistBin(run, bin).error]

InitBins ==
    /\ CoreIdle
    /\ SpIdle
    /\ RgIdle
    /\ DrIdle
    /\ LdIdle
    /\ PlIdle
    /\ AvIdle
    /\ SeIdle
    /\ DpIdle
    /\ SyIdle
    /\ RkIdle
    /\ TbIdle
    /\ LbIdle
    /\ sbRun \in [ver : SP_VERSIONS, part : PARTS_, nbins : 1..MaxBins, seed : 0..MaxSeed]
    /\ sbBin = 1
    /\ sbBuf = << >>
    /\ sbGraph = << >>
    /\ sbUninit = FALSE
    /\ sbPc = "bins"

\* one pass of the loop over the bins
SetSpectra_bin ==
    /\ sbPc = "bins"
    /\ SetSpectra_binLoop(sbBin, sbRun.nbins)
    /\ sbBuf' = [i \in DOMAIN sbBuf \cup {sbBin - 1} |->
                    IF i = sbBin - 1 THEN SetSpectra_element(sbRun, sbBin) ELSE sbBuf[i]]
    /\ sbBin' = sbBin + 1
    /\ UNCHANGED <<coreVars, spVars, rgVars, drVars, ldVars, plVars, avVars, seVars,
                   dpVars, syVars, rkVars, tbVars, lbVars, sbRun, sbGraph, sbUninit, sbPc>>

\* the end of the loop and  grSpectra[i][centr] = new TGraphErrors(...): the
\* graph copies the first SetSpectra_npoints elements of the buffers; an
\* element that was never written has an indeterminate value
SetSpectra_graph ==
    /\ sbPc = "bins"
    /\ ~SetSpectra_binLoop(sbBin, sbRun.nbins)
    /\ LET n == SetSpectra_npoints(sbRun.nbins)
       IN  /\ sbUninit' = \E i \in 0..(n - 1) : i \notin DOMAIN sbBuf
           /\ \E junk \in {0, 1} :
                 sbGraph' = [i \in 1..n |->
                                IF i - 1 \in DOMAIN sbBuf THEN sbBuf[i - 1]
                                ELSE [x |-> junk, y |-> junk, ex |-> junk, ey |-> junk]]
    /\ sbPc' = "done"
    /\ UNCHANGED <<coreVars, spVars, rgVars, drVars, ldVars, plVars, avVars, seVars,
                   dpVars, syVars, rkVars, tbVars, lbVars, sbRun, sbBin, sbBuf>>

NextBins ==
    \/ SetSpectra_bin
    \/ SetSpectra_graph

SpecBins == InitBins /\ [][NextBins]_vars

\* C29: the graph of a histogram with N_BINS bins has N_BINS points, point
\* b - 1 being (mT of the centre of bin b, content of bin b, 0, error of bin b),
\* and no element of the buffers is read without having been written
C29_EveryBinBecomesAPoint ==
    (sbRun # << >> /\ sbPc = "done") =>
        /\ Len(sbGraph) = sbRun.nbins
        /\ \A b \in 1..sbRun.nbins :
              b <= Len(sbGraph) => sbGraph[b] = SetSpectra_element(sbRun, b)
        /\ ~sbUninit

====
